---- MODULE Spec2Model ----
(***************************************************************************)
(* Webhook event-matching and automation-dispatch pipeline of the          *)
(* Instagram automation backend (server/routes.ts, server/storage.ts,      *)
(* server/lib/instagram.ts).                                               *)
(*                                                                         *)
(* Every `await` of the POST /api/webhooks/instagram handler is one step   *)
(* of a request; the synchronous code between two awaits belongs to the    *)
(* step of the await it leads to.  Requests interleave at these steps.     *)
(***************************************************************************)
EXTENDS Integers, Sequences, FiniteSets, Bags, TLC

\* ------------------------------------------------------------------------
\* Bounds of the model
\* ------------------------------------------------------------------------
TickMs == 60000
MaxNow == 120000
MaxFaults == 1
MaxRestarts == 1

\* ------------------------------------------------------------------------
\* Program constants
\* ------------------------------------------------------------------------
WEBHOOK_CACHE_TTL == 60000

\* ------------------------------------------------------------------------
\* JavaScript values
\* ------------------------------------------------------------------------
\* A JavaScript string is a sequence of one-character strings; an optional
\* value is a sequence of length 0 (undefined) or 1.
None == <<>>
Some(v) == <<v>>
NaN == 0 - 1

Requests == {"r1", "r2"}

LowerChar(c) ==
  CASE c = "A" -> "a"
    [] c = "B" -> "b"
    [] c = "K" -> "k"
    [] c = "U" -> "u"
    [] OTHER -> c

toLowerCase(s) == [i \in 1..Len(s) |-> LowerChar(s[i])]

\* String.prototype.includes
includes(s, sub) ==
  \E i \in 0..(Len(s) - Len(sub)) : SubSeq(s, i + 1, i + Len(sub)) = sub

\* Array.prototype.find over the keyword list with the containment test of
\* the matchers: the first keyword whose lower-cased form is a substring of
\* the (already lower-cased) text, or undefined.
FindKeyword(keywords, textLower) ==
  LET hits == {i \in 1..Len(keywords) : includes(textLower, toLowerCase(keywords[i]))}
  IN IF hits = {} THEN None
     ELSE Some(keywords[CHOOSE i \in hits : \A j \in hits : i <= j])

\* JavaScript truthiness of the result of find over strings: undefined and
\* the empty string are falsy.
Truthy(opt) == opt # None /\ opt[1] # <<>>

\* ------------------------------------------------------------------------
\* isWithinSchedule
\* ------------------------------------------------------------------------
\* d.charAt(0).toUpperCase() + d.slice(1).toLowerCase() on the day names used
NormalizeDay(d) ==
  CASE d \in {"mon", "MON", "Mon"} -> "Mon"
    [] d \in {"tue", "TUE", "Tue"} -> "Tue"
    [] OTHER -> d

Digit(c) ==
  CASE c = "0" -> 0 [] c = "1" -> 1 [] c = "2" -> 2 [] c = "3" -> 3 [] c = "4" -> 4
    [] c = "5" -> 5 [] c = "6" -> 6 [] c = "7" -> 7 [] c = "8" -> 8 [] c = "9" -> 9
    [] OTHER -> NaN

RECURSIVE DecValue(_)
DecValue(s) ==
  IF s = <<>> THEN 0
  ELSE DecValue(SubSeq(s, 1, Len(s) - 1)) * 10 + Digit(s[Len(s)])

\* Number(str) for the strings used here: "" is 0, a string of decimal digits
\* is its value, anything else is NaN
Number(s) ==
  IF \E i \in 1..Len(s) : Digit(s[i]) = NaN THEN NaN ELSE DecValue(s)

\* str.split(':')
RECURSIVE SplitColon(_)
SplitColon(s) ==
  LET colons == {i \in 1..Len(s) : s[i] = ":"}
      first == CHOOSE i \in colons : \A j \in colons : i <= j
  IN IF colons = {} THEN << s >>
     ELSE << SubSeq(s, 1, first - 1) >> \o SplitColon(SubSeq(s, first + 1, Len(s)))

\* str.split(':').map(Number)
ParseParts(s) == [i \in 1..Len(SplitColon(s)) |-> Number(SplitColon(s)[i])]

\* const [h, m] = parts; the value is h * 100 + (m || 0)
ToHHMM(parts) ==
  LET h == IF Len(parts) >= 1 THEN parts[1] ELSE NaN
      m == IF Len(parts) >= 2 /\ parts[2] # NaN THEN parts[2] ELSE 0
  IN IF h = NaN THEN NaN ELSE h * 100 + m

NumLe(a, b) == a # NaN /\ b # NaN /\ a <= b
NumLt(a, b) == a # NaN /\ b # NaN /\ a < b

\* an optional string is truthy when it is present and not empty
TruthyStr(opt) == opt # None /\ opt[1] # <<>>

\* faulty variant: the end of a daytime window is excluded
isWithinScheduleExclusiveEnd(config, clk) ==
  IF ~config.scheduleEnabled THEN TRUE
  ELSE IF /\ Len(config.scheduleDays) > 0
          /\ ~(\E i \in 1..Len(config.scheduleDays) :
                  NormalizeDay(config.scheduleDays[i]) = clk.day)
       THEN FALSE
  ELSE IF TruthyStr(config.scheduleStartTime) /\ TruthyStr(config.scheduleEndTime)
       THEN LET currentTime == clk.hours * 100 + clk.minutes
                startTime == ToHHMM(ParseParts(config.scheduleStartTime[1]))
                endTime == ToHHMM(ParseParts(config.scheduleEndTime[1]))
            IN IF NumLe(startTime, endTime)
               THEN ~(NumLt(currentTime, startTime) \/ NumLe(endTime, currentTime))
               ELSE ~(NumLt(currentTime, startTime) /\ NumLt(endTime, currentTime))
  ELSE TRUE

\* faulty variant: after midnight in an overnight window the day list is
\* compared with the day the window started
isWithinScheduleStartDay(config, clk) ==
  LET wellFormed == TruthyStr(config.scheduleStartTime) /\ TruthyStr(config.scheduleEndTime)
      currentTime == clk.hours * 100 + clk.minutes
      startTime == IF wellFormed THEN ToHHMM(ParseParts(config.scheduleStartTime[1])) ELSE NaN
      endTime == IF wellFormed THEN ToHHMM(ParseParts(config.scheduleEndTime[1])) ELSE NaN
      day == IF NumLt(endTime, startTime) /\ NumLe(currentTime, endTime)
             THEN CASE clk.day = "Mon" -> "Sun" [] clk.day = "Tue" -> "Mon" [] OTHER -> "Sat"
             ELSE clk.day
  IN
  IF ~config.scheduleEnabled THEN TRUE
  ELSE IF /\ Len(config.scheduleDays) > 0
          /\ ~(\E i \in 1..Len(config.scheduleDays) :
                  NormalizeDay(config.scheduleDays[i]) = day)
       THEN FALSE
  ELSE IF wellFormed
       THEN IF NumLe(startTime, endTime)
            THEN ~(NumLt(currentTime, startTime) \/ NumLt(endTime, currentTime))
            ELSE ~(NumLt(currentTime, startTime) /\ NumLt(endTime, currentTime))
  ELSE TRUE

\* faulty variant: the day list is not looked at
isWithinScheduleNoDays(config, clk) ==
  IF ~config.scheduleEnabled THEN TRUE
  ELSE IF TruthyStr(config.scheduleStartTime) /\ TruthyStr(config.scheduleEndTime)
       THEN LET currentTime == clk.hours * 100 + clk.minutes
                startTime == ToHHMM(ParseParts(config.scheduleStartTime[1]))
                endTime == ToHHMM(ParseParts(config.scheduleEndTime[1]))
            IN IF NumLe(startTime, endTime)
               THEN ~(NumLt(currentTime, startTime) \/ NumLt(endTime, currentTime))
               ELSE ~(NumLt(currentTime, startTime) /\ NumLt(endTime, currentTime))
  ELSE TRUE

isWithinSchedule(config, clk) ==
  IF ~config.scheduleEnabled THEN TRUE
  ELSE IF /\ Len(config.scheduleDays) > 0
          /\ ~(\E i \in 1..Len(config.scheduleDays) :
                  NormalizeDay(config.scheduleDays[i]) = clk.day)
       THEN FALSE
  ELSE IF TruthyStr(config.scheduleStartTime) /\ TruthyStr(config.scheduleEndTime)
       THEN LET currentTime == clk.hours * 100 + clk.minutes
                startTime == ToHHMM(ParseParts(config.scheduleStartTime[1]))
                endTime == ToHHMM(ParseParts(config.scheduleEndTime[1]))
            IN IF NumLe(startTime, endTime)
               THEN ~(NumLt(currentTime, startTime) \/ NumLt(endTime, currentTime))
               ELSE ~(NumLt(currentTime, startTime) /\ NumLt(endTime, currentTime))
  ELSE TRUE

\* ------------------------------------------------------------------------
\* Strings, configurations and automations used as inputs
\* ------------------------------------------------------------------------
T0900 == <<"0", "9", ":", "0", "0">>
T1100 == <<"1", "1", ":", "0", "0">>
T1200 == <<"1", "2", ":", "0", "0">>
T1700 == <<"1", "7", ":", "0", "0">>
T2200 == <<"2", "2", ":", "0", "0">>
T0600 == <<"0", "6", ":", "0", "0">>
T9 == <<"9">>
TBad == <<"a", "b", ":", "0", "0">>
TBadMinutes == <<"1", "1", ":", "x">>

S_u == <<"u">>
S_k == <<"k">>
S_Ab == <<"A", "b">>
S_a == <<"a">>
S_A == <<"A">>
S_bb == <<"b", "b">>
S_hi == <<"h", "i">>

BaseConfig ==
  [keywords |-> None, triggerWords |-> None, messageTemplate |-> S_hi,
   mediaId |-> "", links |-> <<>>, delaySeconds |-> 0,
   scheduleEnabled |-> FALSE, scheduleDays |-> <<>>,
   scheduleStartTime |-> None, scheduleEndTime |-> None,
   commentReplyEnabled |-> FALSE, commentReplyTemplate |-> <<>>,
   followersOnly |-> FALSE, fallbackCommentMessage |-> <<>>]

Kw(list) == [BaseConfig EXCEPT !.keywords = Some(list)]

Sched(cfg, days, st, en) ==
  [cfg EXCEPT !.scheduleEnabled = TRUE, !.scheduleDays = days,
              !.scheduleStartTime = st, !.scheduleEndTime = en]

Variant(type, isActive, config) ==
  [type |-> type, isActive |-> isActive, config |-> config]

CommentVariants ==
  { Variant("comment_to_dm", TRUE, Kw(<<S_a>>)),
    Variant("comment_to_dm", FALSE, Kw(<<S_a>>)),
    Variant("comment_to_dm", TRUE, Sched(Kw(<<S_a>>), <<"tue">>, None, None)),
    Variant("comment_to_dm", TRUE, Sched(Kw(<<S_a>>), <<"mon">>, Some(T0900), Some(T1700))),
    Variant("comment_to_dm", TRUE, Sched(Kw(<<S_a>>), <<>>, Some(TBad), Some(T1700))),
    Variant("comment_to_dm", TRUE, Sched(Kw(<<S_a>>), <<>>, Some(T0900), Some(TBad))),
    Variant("comment_to_dm", TRUE, Sched(Kw(<<S_a>>), <<>>, Some(TBadMinutes), Some(T1700))),
    Variant("comment_to_dm", TRUE, Sched(Kw(<<S_a>>), <<>>, Some(T1100), Some(T1200))),
    Variant("comment_to_dm", TRUE, [Kw(<<S_a>>) EXCEPT !.mediaId = "m1"]),
    Variant("comment_to_dm", TRUE, [Kw(<<S_a>>) EXCEPT !.mediaId = "m2"]),
    Variant("comment_to_dm", TRUE, Kw(<<S_A>>)),
    Variant("comment_to_dm", TRUE, Kw(<<S_bb>>)),
    Variant("comment_to_dm", TRUE, Kw(<<S_bb, S_a>>)),
    Variant("comment_to_dm", TRUE, Kw(<<<<>>, S_a>>)),
    Variant("comment_to_dm", TRUE, Kw(<<>>)),
    Variant("comment_to_dm", TRUE, BaseConfig),
    Variant("comment_to_dm", TRUE, [Kw(<<S_a>>) EXCEPT !.delaySeconds = 60]),
    Variant("comment_to_dm", TRUE,
            [Kw(<<S_a>>) EXCEPT !.commentReplyEnabled = TRUE,
                                !.commentReplyTemplate = S_hi]),
    Variant("comment_to_dm", TRUE,
            [Kw(<<S_a>>) EXCEPT !.followersOnly = TRUE,
                                !.fallbackCommentMessage = S_hi]) }

ButtonLinks == << [label |-> S_hi, isButton |-> TRUE] >>
PlainLinks == << [label |-> <<>>, isButton |-> FALSE] >>

MessageVariants(type) ==
  { Variant(type, TRUE, BaseConfig),
    Variant(type, FALSE, BaseConfig),
    Variant(type, TRUE, Sched(BaseConfig, <<"tue">>, None, None)),
    Variant(type, TRUE, [BaseConfig EXCEPT !.messageTemplate = <<>>]),
    Variant(type, TRUE, [BaseConfig EXCEPT !.links = ButtonLinks]),
    Variant(type, TRUE, [BaseConfig EXCEPT !.links = PlainLinks]),
    Variant(type, TRUE, [BaseConfig EXCEPT !.delaySeconds = 60]) }

DmVariants ==
  MessageVariants("auto_dm_reply") \cup
  { Variant("mention_reply", TRUE, BaseConfig),
    Variant("welcome_message", TRUE, BaseConfig),
    Variant("auto_dm_reply", TRUE, Kw(<<S_a>>)),
    Variant("auto_dm_reply", TRUE, Kw(<<S_bb>>)),
    Variant("auto_dm_reply", TRUE, Kw(<<<<>>, S_a>>)),
    Variant("auto_dm_reply", TRUE, [BaseConfig EXCEPT !.triggerWords = Some(<<S_A>>)]),
    Variant("auto_dm_reply", TRUE, [BaseConfig EXCEPT !.triggerWords = Some(<<S_bb>>)]),
    Variant("auto_dm_reply", TRUE,
            [BaseConfig EXCEPT !.keywords = Some(<<>>), !.triggerWords = Some(<<S_bb>>)]) }

StoryVariants == MessageVariants("story_reaction")

Variants == CommentVariants \cup DmVariants \cup StoryVariants


\* ------------------------------------------------------------------------
\* Stored data
\* ------------------------------------------------------------------------
AccountIds == {"A1", "A2"}

Account(id, igUser, biz, token, pageToken) ==
  [id |-> id, userId |-> "user1", instagramUserId |-> igUser,
   igBusinessAccountId |-> biz, accessToken |-> token,
   pageAccessToken |-> pageToken, isActive |-> TRUE]

AccountsTable(biz, token, pageToken) ==
  [a \in AccountIds |->
     IF a = "A1" THEN Account("A1", "u1", biz, token, pageToken)
     ELSE Account("A2", "u2", "", "tok", "")]

Row(id, acc, createdAt, v) ==
  [id |-> id, instagramAccountId |-> acc, type |-> v.type,
   title |-> <<"title of", id>>, description |-> <<"about", id>>,
   isActive |-> v.isActive, config |-> v.config,
   stats |-> [totalReplies |-> 0], createdAt |-> createdAt]

\* rows in insertion order; createdAt grows with the position
Table(v1, v2) == << Row("a1", "A1", 1, v1), Row("a2", "A1", 2, v2) >>

CommentOk == Variant("comment_to_dm", TRUE, Kw(<<S_a>>))
CommentDelay == Variant("comment_to_dm", TRUE, [Kw(<<S_a>>) EXCEPT !.delaySeconds = 60])
DmOk == Variant("auto_dm_reply", TRUE, BaseConfig)
DmButtons == Variant("auto_dm_reply", TRUE, [BaseConfig EXCEPT !.links = ButtonLinks])
StoryOk == Variant("story_reaction", TRUE, BaseConfig)

\* ------------------------------------------------------------------------
\* Webhook payloads
\* ------------------------------------------------------------------------
Comment(id, text, media, fromId) ==
  [field |-> "comments",
   value |-> [id |-> id, text |-> text, mediaId |-> media, fromId |-> fromId]]

Msg(sender, text, reaction) ==
  [senderId |-> sender, text |-> text, reaction |-> reaction]

Entry(id, changes, messaging) ==
  [id |-> id, changes |-> changes, messaging |-> messaging]

Body(entries) == [object |-> "instagram", entry |-> entries]

Cmt1 == Comment("c1", S_Ab, "m1", "f1")
Cmt2 == Comment("c2", S_Ab, "m1", "")
OtherChange == [field |-> "mentions",
                value |-> [id |-> "x", text |-> <<>>, mediaId |-> "", fromId |-> ""]]
Dm == Msg("f1", S_Ab, FALSE)
Reaction == Msg("f1", <<>>, TRUE)
DmAndReaction == Msg("f1", S_Ab, TRUE)
NoSender == Msg("", S_Ab, TRUE)

NoBody == [object |-> "none", entry |-> <<>>]

SinglePayloads ==
  { Body(<< Entry("b1", <<Cmt1>>, <<>>) >>),
    Body(<< Entry("b1", <<>>, <<Dm>>) >>),
    Body(<< Entry("b1", <<>>, <<Reaction>>) >>) }

MixedPayloads ==
  { Body(<< Entry("b1", <<OtherChange, Cmt1, Cmt2>>, <<DmAndReaction>>) >>),
    Body(<< Entry("b1", <<Cmt1, Cmt1>>, <<NoSender>>) >>),
    Body(<< Entry("b1", <<Cmt1>>, <<>>), Entry("b1", <<>>, <<Dm, Reaction>>) >>),
    [object |-> "page", entry |-> << Entry("b1", <<Cmt1>>, <<>>) >>] }

ResolvePayloads ==
  { Body(<< Entry(e, <<Cmt1>>, <<DmAndReaction>>) >>) : e \in {"b1", "u1", "zz"} }
    \cup { Body(<< Entry("u1", <<>>, <<DmAndReaction>>) >>) }

\* ------------------------------------------------------------------------
\* State
\* ------------------------------------------------------------------------
VARIABLES
  now,                     \* Date.now()
  clock,                   \* local wall clock read by isWithinSchedule
  accounts,                \* instagram_accounts table
  automations,             \* automations table
  processedComments,       \* processed_comments table (the ledger)
  followerTracking,        \* follower_tracking table
  activityLog,             \* activity_log table
  webhookProcessingCache,  \* in-memory dedup map
  req,                     \* the webhook requests and their local variables
  trace,                   \* history of evaluations and side effects
  faults,                  \* storage failures injected so far
  restarts,                \* process restarts so far
  pure,                    \* the last application of a helper function
  scheduledMessages,       \* scheduled_messages table
  runs,                    \* the runs of the scheduled-message processor
  api,                     \* answers of the scheduled-message and account API
  backups,                 \* automation_backups table
  calls                    \* the account request in flight and its local variables

vars == << now, clock, accounts, automations, processedComments, followerTracking,
           activityLog, webhookProcessingCache, req, trace, faults, restarts, pure,
           scheduledMessages, runs, api, backups, calls >>

\* what the webhook handler never touches
aside == << pure, scheduledMessages, runs, api, backups, calls >>

\* no scheduled message, no run of the processor, no API call, no backup
NothingScheduled ==
  /\ scheduledMessages = << >>
  /\ runs = << >>
  /\ api = {}
  /\ backups = {}
  /\ calls = << >>

\* no helper function applied on its own
NoCall == [fn |-> "none", args |-> <<>>, result |-> <<>>]

EmptyCache == [k \in {} |-> 0]

NewRequest(body) ==
  [pc |-> IF body = NoBody THEN "none" ELSE "idle",
   body |-> body, ei |-> 1, ci |-> 0, mi |-> 0, flow |-> "none",
   account |-> None, autos |-> <<>>, ai |-> 0, matched |-> None,
   dmSent |-> FALSE, wakeAt |-> 0, status |-> 0, ledgerAtStart |-> {},
   via |-> "none", overlapped |-> FALSE]

InitData(accs, table, b1, b2, nFaults, nRestarts) ==
  /\ now = TickMs
  /\ clock = [day |-> "Mon", hours |-> 10, minutes |-> 0]
  /\ accounts = accs
  /\ automations = table
  /\ processedComments = EmptyBag
  /\ followerTracking = {}
  /\ activityLog = EmptyBag
  /\ webhookProcessingCache = EmptyCache
  /\ req = [r \in Requests |-> IF r = "r1" THEN NewRequest(b1) ELSE NewRequest(b2)]
  /\ trace = [r \in Requests |-> <<>>]
  /\ faults = nFaults
  /\ restarts = nRestarts
  /\ NothingScheduled

\* The single-request families inject storage failures and no restart (a
\* restart only ends the one request).
\* one request, every automation variant next to a plain one
InitMatch ==
  \E v1 \in Variants, v2 \in {CommentOk, DmOk, StoryOk}, b \in SinglePayloads :
    InitData(AccountsTable("b1", "tok", "ptok"), Table(v1, v2), b, NoBody, 0, MaxRestarts)

InitMixed ==
  \E b \in MixedPayloads, v2 \in {CommentOk, DmButtons, CommentDelay} :
    InitData(AccountsTable("b1", "tok", "ptok"), Table(StoryOk, v2), b, NoBody, 0, MaxRestarts)

\* account resolution and credentials
InitResolve ==
  \E b \in ResolvePayloads, biz \in {"b1", ""}, tok \in {"tok", ""},
     ptok \in {"ptok", ""},
     v1 \in {CommentOk, [CommentOk EXCEPT !.config.mediaId = "m1"],
             [CommentOk EXCEPT !.config.mediaId = "m2"]} :
    InitData(AccountsTable(biz, tok, ptok), Table(v1, DmButtons), b, NoBody, 0, MaxRestarts)

\* two deliveries handled concurrently, with restarts of the process and
\* without storage failures
InitConcurrent ==
  \E v1 \in {CommentOk, CommentDelay}, b1 \in SinglePayloads, b2 \in SinglePayloads :
    InitData(AccountsTable("b1", "tok", "ptok"), Table(v1, DmOk), b1, b2, MaxFaults, 0)

\* two deliveries for an account that has no business id yet, one after the
\* other or concurrently, without storage failures and restarts; the keyword
\* of the automation is not in the comments
InitLinking ==
  \E e1 \in {"u1", "zz"}, e2 \in {"u1", "zz", "yy"} :
    InitData(AccountsTable("", "tok", "ptok"),
             Table(Variant("comment_to_dm", TRUE, Kw(<<S_bb>>)), DmOk),
             Body(<< Entry(e1, <<Cmt1>>, <<>>) >>), Body(<< Entry(e2, <<Cmt2>>, <<>>) >>),
             MaxFaults, MaxRestarts)

\* one comment delivered twice, with one storage failure and no restart: the
\* entry id and media of the comment lead to no account, or to account A1
InitRedelivery ==
  \E e \in {"zz", "b1"} :
    InitData(AccountsTable("b1", "tok", "ptok"),
             Table(IF e = "zz" THEN [CommentOk EXCEPT !.config.mediaId = "m2"] ELSE CommentOk,
                   DmOk),
             Body(<< Entry(e, <<Cmt1>>, <<>>) >>), Body(<< Entry(e, <<Cmt1>>, <<>>) >>),
             0, MaxRestarts)

Init ==
  /\ \/ InitMatch \/ InitMixed \/ InitResolve \/ InitConcurrent \/ InitLinking
     \/ InitRedelivery
  /\ pure = NoCall


\* ------------------------------------------------------------------------
\* Storage queries (server/storage.ts)
\* ------------------------------------------------------------------------
\* SELECT ... WHERE ig_business_account_id = id LIMIT 1: any matching row
AccountsByBusinessId(id) == {a \in AccountIds : accounts[a].igBusinessAccountId = id}
AccountsByInstagramUserId(id) == {a \in AccountIds : accounts[a].instagramUserId = id}

\* faulty variant: the query without desc(), oldest automation first
RECURSIVE OrderByCreatedAtAsc(_)
OrderByCreatedAtAsc(rows) ==
  IF rows = {} THEN <<>>
  ELSE LET top == CHOOSE x \in rows : \A y \in rows : x.createdAt <= y.createdAt
       IN <<top>> \o OrderByCreatedAtAsc(rows \ {top})

RECURSIVE OrderByCreatedAtDesc(_)
OrderByCreatedAtDesc(rows) ==
  IF rows = {} THEN <<>>
  ELSE LET top == CHOOSE x \in rows : \A y \in rows : y.createdAt <= x.createdAt
       IN <<top>> \o OrderByCreatedAtDesc(rows \ {top})

getAutomationsByInstagramAccountId(accountId) ==
  OrderByCreatedAtDesc({automations[i] : i \in {j \in 1..Len(automations) :
                          automations[j].instagramAccountId = accountId}})

getAllActiveAutomations == {automations[i] : i \in {j \in 1..Len(automations) :
                                                     automations[j].isActive}}

\* the rows of processed_comments with the key (the table is a bag of rows)
LedgerMatch(accountId, commentId, automationId) ==
  {row \in BagToSet(processedComments) :
     /\ row.instagramAccountId = accountId
     /\ row.commentId = commentId
     /\ row.automationId = automationId}

\* faulty variant: a lookup that never finds the row
isCommentProcessedNever(accountId, commentId, automationId) == FALSE

isCommentProcessed(accountId, commentId, automationId) ==
  LedgerMatch(accountId, commentId, automationId) # {}

\* the INSERT of markCommentProcessed
InsertProcessedComment(accountId, commentId, automationId, action) ==
  processedComments (+)
    SetToBag({[instagramAccountId |-> accountId, commentId |-> commentId,
               automationId |-> automationId, action |-> action]})

\* UPDATE automations SET stats = ... WHERE id = id
updateAutomationStats(id, stats) ==
  [i \in 1..Len(automations) |->
     IF automations[i].id = id THEN [automations[i] EXCEPT !.stats = stats]
     ELSE automations[i]]

\* ------------------------------------------------------------------------
\* In-memory dedup guard (isWebhookDuplicate)
\* ------------------------------------------------------------------------
CacheCleanupSize == 1000

CacheAfterCleanup(cache, t) ==
  IF Cardinality(DOMAIN cache) > CacheCleanupSize
  THEN [k \in {x \in DOMAIN cache : ~(t - cache[x] > WEBHOOK_CACHE_TTL)} |-> cache[k]]
  ELSE cache

\* faulty variant: an entry exactly WEBHOOK_CACHE_TTL old still counts
isWebhookDuplicateInclusive(cache, key, t) ==
  /\ key \in DOMAIN cache
  /\ cache[key] # 0
  /\ t - cache[key] <= WEBHOOK_CACHE_TTL

\* the value returned; lastProcessed is read before the clean-up
isWebhookDuplicate(cache, key, t) ==
  /\ key \in DOMAIN cache
  /\ cache[key] # 0
  /\ t - cache[key] < WEBHOOK_CACHE_TTL

\* faulty variant: the call does not record the key
CacheAfterCallUnrecorded(cache, key, t) == CacheAfterCleanup(cache, t)

\* the map after the call
CacheAfterCall(cache, key, t) ==
  LET cleaned == CacheAfterCleanup(cache, t)
  IN IF isWebhookDuplicate(cache, key, t) THEN cleaned
     ELSE [k \in DOMAIN cleaned \cup {key} |-> IF k = key THEN t ELSE cleaned[k]]

\* ------------------------------------------------------------------------
\* Matchers (the synchronous tests of the three automation loops)
\* ------------------------------------------------------------------------
OptList(opt) == IF opt = None THEN <<>> ELSE opt[1]

\* config?.keywords || []
CommentKeywords(config) == OptList(config.keywords)

\* config?.keywords || config?.triggerWords || []  (an empty array is truthy)
TriggerWords(config) ==
  IF config.keywords # None THEN config.keywords[1] ELSE OptList(config.triggerWords)

CommentMatchedKeyword(a, comment) ==
  FindKeyword(CommentKeywords(a.config), toLowerCase(comment.text))

\* filter + schedule + media + keyword tests of the comment loop
CommentCandidate(a, comment, clk) ==
  /\ a.isActive
  /\ a.type = "comment_to_dm"
  /\ isWithinSchedule(a.config, clk)
  /\ ~(a.config.mediaId # "" /\ comment.mediaId # a.config.mediaId)
  /\ Truthy(CommentMatchedKeyword(a, comment))

DmTypeFilter(a) == a.isActive /\ (a.type = "auto_dm_reply" \/ a.type = "mention_reply")

DmMatchedKeyword(a, msg) ==
  FindKeyword(TriggerWords(a.config), toLowerCase(msg.text))

DmCandidate(a, msg, clk) ==
  /\ DmTypeFilter(a)
  /\ isWithinSchedule(a.config, clk)
  /\ (Len(TriggerWords(a.config)) = 0 \/ Truthy(DmMatchedKeyword(a, msg)))
  /\ a.config.messageTemplate # <<>>

\* faulty variant: the story-reaction loop without its schedule test
StoryCandidateNoSchedule(a, clk) ==
  /\ a.isActive
  /\ a.type = "story_reaction"
  /\ a.config.messageTemplate # <<>>

StoryCandidate(a, clk) ==
  /\ a.isActive
  /\ a.type = "story_reaction"
  /\ isWithinSchedule(a.config, clk)
  /\ a.config.messageTemplate # <<>>

\* ------------------------------------------------------------------------
\* sendDirectMessage / sendDirectMessageWithButtons (server/lib/instagram.ts)
\* ------------------------------------------------------------------------
\* links.some(l => l.isButton)
hasButtonLinks(links) == \E i \in 1..Len(links) : links[i].isButton

\* One HTTP call to the messaging provider and its status (200 = success)
Attempt(via, status) == [via |-> via, status |-> status]
StatusOf(o) == IF o THEN 200 ELSE 400

\* faulty variant: sendDirectMessage without the text-only retry
sendDirectMessageNoTextRetry(buttons, igBusinessAccountId, pageAccessToken, o1, o2, o3) ==
  LET primary == Attempt(IF buttons THEN "template" ELSE "text", StatusOf(o1))
      igRetry == igBusinessAccountId # "" /\ pageAccessToken = ""
      fallback == Attempt("instagram_text", StatusOf(o2))
  IN IF o1 THEN [ok |-> TRUE, attempts |-> <<primary>>]
     ELSE IF igRetry THEN [ok |-> o2, attempts |-> <<primary, fallback>>]
     ELSE [ok |-> FALSE, attempts |-> <<primary>>]

\* o1, o2, o3: whether the primary call, the Instagram-endpoint retry and the
\* text-only retry succeed.  The result tells whether the function returned
\* (ok) or threw, and the HTTP calls it made.
sendDirectMessage(buttons, igBusinessAccountId, pageAccessToken, o1, o2, o3) ==
  LET primary == Attempt(IF buttons THEN "template" ELSE "text", StatusOf(o1))
      igRetry == igBusinessAccountId # "" /\ pageAccessToken = ""
      fallback == Attempt("instagram_text", StatusOf(o2))
      textOnly == Attempt("text_only", StatusOf(o3))
      afterIg == IF igRetry THEN <<primary, fallback>> ELSE <<primary>>
  IN IF o1 THEN [ok |-> TRUE, attempts |-> <<primary>>]
     ELSE IF igRetry /\ o2 THEN [ok |-> TRUE, attempts |-> <<primary, fallback>>]
     ELSE IF buttons /\ o3 THEN [ok |-> TRUE, attempts |-> Append(afterIg, textOnly)]
     ELSE IF buttons THEN [ok |-> FALSE, attempts |-> Append(afterIg, textOnly)]
     ELSE [ok |-> FALSE, attempts |-> afterIg]

\* sendPrivateReply: Instagram endpoint, then the Facebook endpoint
sendPrivateReply(o1, o2) ==
  IF o1 THEN [ok |-> TRUE, attempts |-> << Attempt("instagram", 200) >>]
  ELSE [ok |-> o2,
        attempts |-> << Attempt("instagram", 400), Attempt("facebook", StatusOf(o2)) >>]

\* replyToComment: s1 is the HTTP status of the primary call (200 = success),
\* o2 whether the retry on the Facebook host succeeds
replyToComment(s1, o2) ==
  IF s1 = 200 THEN [ok |-> TRUE, attempts |-> << Attempt("instagram", 200) >>]
  ELSE IF s1 = 400
  THEN [ok |-> o2,
        attempts |-> << Attempt("instagram", 400), Attempt("facebook", StatusOf(o2)) >>]
  ELSE [ok |-> FALSE, attempts |-> << Attempt("instagram", s1) >>]

HttpStatuses == {200, 400, 403, 500}

\* ------------------------------------------------------------------------
\* The POST /api/webhooks/instagram handler
\* ------------------------------------------------------------------------
CurEntry(q) == q.body.entry[q.ei]
CurComment(q) == CurEntry(q).changes[q.ci].value
CurMsg(q) == CurEntry(q).messaging[q.mi]
CurAuto(q) == q.autos[q.ai]
Acc(q) == q.account[1]
Pos(q) == <<q.ei, q.ci, q.mi>>

\* One entry of a request's history: an automation evaluated ("eval"), a
\* delivery begun ("dispatch"), a provider function called ("call"), a row
\* written ("insert", "updateAutomation", "createActivityLog") or a storage
\* call that failed ("fault").
RecA(kind, r, q, auto, ok, n, tag, attempts) ==
  [kind |-> kind, req |-> r, pos |-> Pos(q), flow |-> q.flow,
   account |-> IF q.account = None THEN "" ELSE Acc(q).id,
   target |-> IF q.flow = "comment" THEN CurComment(q).id ELSE CurMsg(q).senderId,
   auto |-> auto, ok |-> ok, n |-> n, tag |-> tag, attempts |-> attempts]

Rec(kind, r, q, auto, ok, n, tag) == RecA(kind, r, q, auto, ok, n, tag, <<>>)

LedgerTriples ==
  {<<row.instagramAccountId, row.commentId, row.automationId>> :
     row \in BagToSet(processedComments)}

\* res.sendStatus(code): the request is over
Respond(q, code) == [q EXCEPT !.pc = "done", !.status = code]

\* where the handler goes once an account has been resolved for a comment;
\* via remembers which of the three lookups found it
AfterResolve(q, acc) ==
  [q EXCEPT !.account = Some(acc), !.via = q.pc,
            !.pc = IF acc.igBusinessAccountId = "" THEN "link" ELSE "autos"]

\* faulty variant: without a delay the comment flow sends before it marks
AfterDelayCheckSendsFirst(q, t) ==
  IF CurAuto(q).config.delaySeconds > 0
  THEN [q EXCEPT !.pc = "sleep", !.wakeAt = t + CurAuto(q).config.delaySeconds * 1000]
  ELSE [q EXCEPT !.pc = "send"]

\* the optional delay in front of a delivery, then the first await after it
AfterDelayCheck(q, t) ==
  IF CurAuto(q).config.delaySeconds > 0
  THEN [q EXCEPT !.pc = "sleep", !.wakeAt = t + CurAuto(q).config.delaySeconds * 1000]
  ELSE [q EXCEPT !.pc = IF q.flow = "comment" THEN "mark1" ELSE "send"]

\* the story-reaction block that follows the direct-message block of one
\* messaging event
ReactionPart(q) ==
  IF CurMsg(q).senderId # "" /\ CurMsg(q).reaction
  THEN [q EXCEPT !.pc = "acct", !.flow = "story"]
  ELSE [q EXCEPT !.pc = "event", !.flow = "none"]

\* faulty variant: no try/catch around a delivery, the error reaches the
\* handler's outer catch
RethrowDelivery(q) == Respond(q, 500)

\* the catch block of the try a delivery runs in: log, next automation
CatchDelivery(q) == [q EXCEPT !.pc = "next"]

Start(r) ==
  /\ req[r].pc = "idle"
  /\ req' = [req EXCEPT ![r] =
       IF @.body.object = "instagram"
       THEN [@ EXCEPT !.pc = "event", !.ledgerAtStart = LedgerTriples,
                      !.overlapped = \E o \in Requests \ {r} :
                                        req[o].pc \notin {"none", "idle", "done"}]
       ELSE Respond(@, 200)]
  /\ UNCHANGED << aside, now, clock, accounts, automations, processedComments, followerTracking,
                  activityLog, webhookProcessingCache, trace, faults, restarts >>

\* faulty variant: the messaging events of an entry are handled before its
\* changes
EventMessagingFirst(r) ==
  LET q == req[r] IN
  /\ q.pc = "event"
  /\ IF q.ei > Len(q.body.entry)
     THEN /\ req' = [req EXCEPT ![r] = Respond(q, 200)]
          /\ UNCHANGED webhookProcessingCache
     ELSE IF q.mi < Len(CurEntry(q).messaging)
     THEN LET msg == CurEntry(q).messaging[q.mi + 1]
              q1 == [q EXCEPT !.mi = q.mi + 1, !.account = None]
          IN /\ req' = [req EXCEPT ![r] =
                  IF msg.senderId # "" /\ msg.text # <<>>
                  THEN [q1 EXCEPT !.pc = "acct", !.flow = "dm"]
                  ELSE ReactionPart(q1)]
             /\ UNCHANGED webhookProcessingCache
     ELSE IF q.ci < Len(CurEntry(q).changes)
     THEN LET change == CurEntry(q).changes[q.ci + 1]
              key == change.value.id
          IN IF change.field = "comments"
             THEN /\ webhookProcessingCache' = CacheAfterCall(webhookProcessingCache, key, now)
                  /\ req' = [req EXCEPT ![r] =
                       IF isWebhookDuplicate(webhookProcessingCache, key, now)
                       THEN [q EXCEPT !.ci = q.ci + 1]
                       ELSE [q EXCEPT !.ci = q.ci + 1, !.pc = "acct", !.flow = "comment",
                                      !.account = None]]
             ELSE /\ req' = [req EXCEPT ![r] = [q EXCEPT !.ci = q.ci + 1]]
                  /\ UNCHANGED webhookProcessingCache
     ELSE /\ req' = [req EXCEPT ![r] = [q EXCEPT !.ei = q.ei + 1, !.ci = 0, !.mi = 0]]
          /\ UNCHANGED webhookProcessingCache
  /\ UNCHANGED << aside, now, clock, accounts, automations, processedComments, followerTracking,
                  activityLog, trace, faults, restarts >>

\* the loops over entries, changes and messaging events, up to the first await
Event(r) ==
  LET q == req[r] IN
  /\ q.pc = "event"
  /\ IF q.ei > Len(q.body.entry)
     THEN /\ req' = [req EXCEPT ![r] = Respond(q, 200)]
          /\ UNCHANGED webhookProcessingCache
     ELSE IF q.ci < Len(CurEntry(q).changes)
     THEN LET change == CurEntry(q).changes[q.ci + 1]
              key == change.value.id
          IN IF change.field = "comments"
             THEN /\ webhookProcessingCache' = CacheAfterCall(webhookProcessingCache, key, now)
                  /\ req' = [req EXCEPT ![r] =
                       IF isWebhookDuplicate(webhookProcessingCache, key, now)
                       THEN [q EXCEPT !.ci = q.ci + 1]
                       ELSE [q EXCEPT !.ci = q.ci + 1, !.pc = "acct", !.flow = "comment",
                                      !.account = None]]
             ELSE /\ req' = [req EXCEPT ![r] = [q EXCEPT !.ci = q.ci + 1]]
                  /\ UNCHANGED webhookProcessingCache
     ELSE IF q.mi < Len(CurEntry(q).messaging)
     THEN LET msg == CurEntry(q).messaging[q.mi + 1]
              q1 == [q EXCEPT !.mi = q.mi + 1, !.account = None]
          IN /\ req' = [req EXCEPT ![r] =
                  IF msg.senderId # "" /\ msg.text # <<>>
                  THEN [q1 EXCEPT !.pc = "acct", !.flow = "dm"]
                  ELSE ReactionPart(q1)]
             /\ UNCHANGED webhookProcessingCache
     ELSE /\ req' = [req EXCEPT ![r] = [q EXCEPT !.ei = q.ei + 1, !.ci = 0, !.mi = 0]]
          /\ UNCHANGED webhookProcessingCache
  /\ UNCHANGED << aside, now, clock, accounts, automations, processedComments, followerTracking,
                  activityLog, trace, faults, restarts >>

\* storage.getInstagramAccountByBusinessId(entry.id)
Acct(r) ==
  LET q == req[r]
      found == AccountsByBusinessId(CurEntry(q).id)
  IN
  /\ q.pc = "acct"
  /\ IF found = {}
     THEN req' = [req EXCEPT ![r] =
            IF q.flow = "comment" THEN [q EXCEPT !.pc = "byUser"]
            ELSE [q EXCEPT !.pc = "event", !.flow = "none"]]
     ELSE \E a \in found :
            req' = [req EXCEPT ![r] =
              IF q.flow = "comment" THEN AfterResolve(q, accounts[a])
              ELSE [q EXCEPT !.account = Some(accounts[a]), !.pc = "autos"]]
  /\ UNCHANGED << aside, now, clock, accounts, automations, processedComments, followerTracking,
                  activityLog, webhookProcessingCache, trace, faults, restarts >>

\* storage.getInstagramAccountByInstagramUserId(entry.id)
ByUser(r) ==
  LET q == req[r]
      found == AccountsByInstagramUserId(CurEntry(q).id)
  IN
  /\ q.pc = "byUser"
  /\ IF found = {}
     THEN req' = [req EXCEPT ![r] =
            IF CurComment(q).mediaId # "" THEN [q EXCEPT !.pc = "byMedia"]
            ELSE [q EXCEPT !.pc = "event", !.flow = "none"]]
     ELSE \E a \in found : req' = [req EXCEPT ![r] = AfterResolve(q, accounts[a])]
  /\ UNCHANGED << aside, now, clock, accounts, automations, processedComments, followerTracking,
                  activityLog, webhookProcessingCache, trace, faults, restarts >>

\* the accounts the media scan of getAllActiveAutomations() can stop at; the
\* query has no ORDER BY, so any of them can come first
MediaCandidates(comment) ==
  {a.instagramAccountId : a \in {x \in getAllActiveAutomations :
      /\ x.type = "comment_to_dm"
      /\ (x.config.mediaId = "" \/ x.config.mediaId = comment.mediaId)
      /\ x.instagramAccountId \in AccountIds}}

ByMedia(r) ==
  LET q == req[r]
      found == MediaCandidates(CurComment(q))
  IN
  /\ q.pc = "byMedia"
  /\ IF found = {}
     THEN req' = [req EXCEPT ![r] = [q EXCEPT !.pc = "event", !.flow = "none"]]
     ELSE \E a \in found : req' = [req EXCEPT ![r] = AfterResolve(q, accounts[a])]
  /\ UNCHANGED << aside, now, clock, accounts, automations, processedComments, followerTracking,
                  activityLog, webhookProcessingCache, trace, faults, restarts >>

\* storage.updateInstagramAccountBusinessId(account.id, entry.id)
Link(r) ==
  LET q == req[r] IN
  /\ q.pc = "link"
  /\ accounts' = [accounts EXCEPT ![Acc(q).id].igBusinessAccountId = CurEntry(q).id]
  /\ req' = [req EXCEPT ![r] = [q EXCEPT !.pc = "autos"]]
  /\ UNCHANGED << aside, now, clock, automations, processedComments, followerTracking,
                  activityLog, webhookProcessingCache, trace, faults, restarts >>

\* storage.getAutomationsByInstagramAccountId(account.id)
Autos(r) ==
  LET q == req[r] IN
  /\ q.pc = "autos"
  /\ req' = [req EXCEPT ![r] =
       [q EXCEPT !.autos = getAutomationsByInstagramAccountId(Acc(q).id),
                 !.ai = 0, !.pc = "next"]]
  /\ UNCHANGED << aside, now, clock, accounts, automations, processedComments, followerTracking,
                  activityLog, webhookProcessingCache, trace, faults, restarts >>


\* the synchronous tests one automation of the loop has to pass
Candidate(q, a) ==
  CASE q.flow = "comment" -> CommentCandidate(a, CurComment(q), clock)
    [] q.flow = "dm" -> DmCandidate(a, CurMsg(q), clock)
    [] OTHER -> StoryCandidate(a, clock)

MatchedKeyword(q, a) ==
  CASE q.flow = "comment" -> CommentMatchedKeyword(a, CurComment(q))
    [] q.flow = "dm" -> DmMatchedKeyword(a, CurMsg(q))
    [] OTHER -> None

LedgerTag(q, a) ==
  IF q.flow = "comment" /\ isCommentProcessed(Acc(q).id, CurComment(q).id, a.id)
  THEN "inLedger" ELSE ""

\* history: the automations lo..hi of the snapshot were passed over
SkippedEvals(r, q, lo, hi) ==
  [k \in 1..(hi - lo + 1) |->
     Rec("eval", r, q, q.autos[lo + k - 1].id, FALSE, 0, LedgerTag(q, q.autos[lo + k - 1]))]

\* the automation loop from the current position to the next automation that
\* passes the synchronous tests (no await in between)
NextAuto(r) ==
  LET q == req[r]
      J == {j \in (q.ai + 1)..Len(q.autos) : Candidate(q, q.autos[j])}
      j == CHOOSE x \in J : \A y \in J : x <= y
  IN
  /\ q.pc = "next"
  /\ IF J = {}
     THEN /\ trace' = [trace EXCEPT ![r] = @ \o SkippedEvals(r, q, q.ai + 1, Len(q.autos))]
          /\ req' = [req EXCEPT ![r] =
               IF q.flow = "dm" THEN ReactionPart([q EXCEPT !.ai = Len(q.autos)])
               ELSE [q EXCEPT !.ai = Len(q.autos), !.pc = "event", !.flow = "none"]]
     ELSE LET q1 == [q EXCEPT !.ai = j, !.matched = MatchedKeyword(q, q.autos[j]),
                              !.dmSent = FALSE]
          IN IF q.flow = "comment"
             THEN /\ trace' = [trace EXCEPT ![r] = @ \o SkippedEvals(r, q, q.ai + 1, j - 1)]
                  /\ req' = [req EXCEPT ![r] = [q1 EXCEPT !.pc = "isProc"]]
             ELSE /\ trace' = [trace EXCEPT ![r] = (@ \o SkippedEvals(r, q, q.ai + 1, j - 1))
                                \o << Rec("eval", r, q, q.autos[j].id, TRUE, 0, "") >>]
                  /\ req' = [req EXCEPT ![r] = AfterDelayCheck(q1, now)]
  /\ UNCHANGED << aside, now, clock, accounts, automations, processedComments, followerTracking,
                  activityLog, webhookProcessingCache, faults, restarts >>

\* storage.isCommentProcessed(account.id, comment.id, automation.id)
IsProc(r) ==
  LET q == req[r]
      alreadyProcessed == isCommentProcessed(Acc(q).id, CurComment(q).id, CurAuto(q).id)
  IN
  /\ q.pc = "isProc"
  /\ trace' = [trace EXCEPT ![r] = Append(@, Rec("eval", r, q, CurAuto(q).id, ~alreadyProcessed, 0,
                                LedgerTag(q, CurAuto(q))))]
  /\ req' = [req EXCEPT ![r] =
       IF alreadyProcessed THEN [q EXCEPT !.pc = "next"]
       ELSE IF CurComment(q).fromId # "" THEN [q EXCEPT !.pc = "track"]
       ELSE AfterDelayCheck(q, now)]
  /\ UNCHANGED << aside, now, clock, accounts, automations, processedComments, followerTracking,
                  activityLog, webhookProcessingCache, faults, restarts >>

\* storage.getFollowerTracking(account.id, commenterUserId)
Track(r) ==
  LET q == req[r] IN
  /\ q.pc = "track"
  /\ req' = [req EXCEPT ![r] =
       IF <<Acc(q).id, CurComment(q).fromId>> \in followerTracking
       THEN AfterDelayCheck(q, now)
       ELSE [q EXCEPT !.pc = "trackIns"]]
  /\ UNCHANGED << aside, now, clock, accounts, automations, processedComments, followerTracking,
                  activityLog, webhookProcessingCache, trace, faults, restarts >>

\* storage.createFollowerTracking(...)
TrackIns(r) ==
  LET q == req[r] IN
  /\ q.pc = "trackIns"
  /\ followerTracking' = followerTracking \cup {<<Acc(q).id, CurComment(q).fromId>>}
  /\ req' = [req EXCEPT ![r] = AfterDelayCheck(q, now)]
  /\ UNCHANGED << aside, now, clock, accounts, automations, processedComments,
                  activityLog, webhookProcessingCache, trace, faults, restarts >>

\* await delay(delaySeconds * 1000): the timer fires no earlier than wakeAt
Sleep(r) ==
  LET q == req[r] IN
  /\ q.pc = "sleep"
  /\ now >= q.wakeAt
  /\ req' = [req EXCEPT ![r] = [q EXCEPT !.pc = IF q.flow = "comment" THEN "mark1" ELSE "send"]]
  /\ UNCHANGED << aside, now, clock, accounts, automations, processedComments, followerTracking,
                  activityLog, webhookProcessingCache, trace, faults, restarts >>

\* the action value of the call: "processing" in front of the delivery, the
\* outcome after it
MarkAction(q) ==
  IF q.pc \in {"mark1", "mark1ins"} THEN "processing"
  ELSE IF q.dmSent THEN "dm_sent" ELSE "comment_reply"

\* where the handler continues when markCommentProcessed returns
AfterMark(q) == IF q.pc \in {"mark1", "mark1ins"} THEN "send" ELSE "log"

\* markCommentProcessed, the SELECT: an existing row is returned as it is
MarkSelect(r) ==
  LET q == req[r] IN
  /\ q.pc \in {"mark1", "mark2"}
  /\ req' = [req EXCEPT ![r] =
       [q EXCEPT !.pc = IF isCommentProcessed(Acc(q).id, CurComment(q).id, CurAuto(q).id)
                        THEN AfterMark(q)
                        ELSE IF q.pc = "mark1" THEN "mark1ins" ELSE "mark2ins"]]
  /\ UNCHANGED << aside, now, clock, accounts, automations, processedComments, followerTracking,
                  activityLog, webhookProcessingCache, trace, faults, restarts >>

\* markCommentProcessed, the INSERT that follows a SELECT that found nothing
MarkInsert(r) ==
  LET q == req[r] IN
  /\ q.pc \in {"mark1ins", "mark2ins"}
  /\ processedComments' =
       InsertProcessedComment(Acc(q).id, CurComment(q).id, CurAuto(q).id, MarkAction(q))
  /\ trace' = [trace EXCEPT ![r] =
       Append(@, Rec("insert", r, q, CurAuto(q).id, TRUE, 0, MarkAction(q)))]
  /\ req' = [req EXCEPT ![r] = [q EXCEPT !.pc = AfterMark(q)]]
  /\ UNCHANGED << aside, now, clock, accounts, automations, followerTracking,
                  activityLog, webhookProcessingCache, faults, restarts >>

\* the first part of the try block of the comment flow: token check and
\* sendPrivateReply
SendComment(r) ==
  LET q == req[r] IN
  /\ q.pc = "send" /\ q.flow = "comment"
  /\ IF Acc(q).accessToken = ""
     THEN /\ trace' = [trace EXCEPT ![r] = Append(@, Rec("dispatch", r, q, CurAuto(q).id, FALSE, 0, ""))]
          /\ req' = [req EXCEPT ![r] = CatchDelivery(q)]
     ELSE \E o1 \in BOOLEAN, o2 \in BOOLEAN :
            LET res == sendPrivateReply(o1, o2) IN
            /\ trace' = [trace EXCEPT ![r] = @ \o
                 << Rec("dispatch", r, q, CurAuto(q).id, TRUE, 0, ""),
                    RecA("call", r, q, CurAuto(q).id, res.ok, 0, "sendPrivateReply", res.attempts) >>]
            /\ req' = [req EXCEPT ![r] =
                 [q EXCEPT !.dmSent = res.ok,
                           !.pc = IF /\ CurAuto(q).config.commentReplyEnabled
                                     /\ CurAuto(q).config.commentReplyTemplate # <<>>
                                  THEN "reply" ELSE "stats"]]
  /\ UNCHANGED << aside, now, clock, accounts, automations, processedComments, followerTracking,
                  activityLog, webhookProcessingCache, faults, restarts >>

\* replyToComment(accessToken, comment.id, rendered commentReplyTemplate)
Reply(r) ==
  LET q == req[r] IN
  /\ q.pc = "reply"
  /\ \E s1 \in HttpStatuses, o2 \in BOOLEAN :
       LET res == replyToComment(s1, o2) IN
       trace' = [trace EXCEPT ![r] = Append(@, RecA("call", r, q, CurAuto(q).id, res.ok, 0,
                                   "replyToComment", res.attempts))]
  /\ req' = [req EXCEPT ![r] = [q EXCEPT !.pc = "stats"]]
  /\ UNCHANGED << aside, now, clock, accounts, automations, processedComments, followerTracking,
                  activityLog, webhookProcessingCache, faults, restarts >>

\* the try block of the direct-message and story-reaction flows up to the send
SendMsg(r) ==
  LET q == req[r] IN
  /\ q.pc = "send" /\ q.flow # "comment"
  /\ \E o1 \in BOOLEAN, o2 \in BOOLEAN, o3 \in BOOLEAN :
       LET res == sendDirectMessage(hasButtonLinks(CurAuto(q).config.links),
                                    Acc(q).igBusinessAccountId, Acc(q).pageAccessToken,
                                    o1, o2, o3)
       IN /\ trace' = [trace EXCEPT ![r] = @ \o
               << Rec("dispatch", r, q, CurAuto(q).id, TRUE, 0, ""),
                  RecA("call", r, q, CurAuto(q).id, res.ok, 0, "sendDirectMessage", res.attempts) >>]
          /\ req' = [req EXCEPT ![r] =
               IF res.ok THEN [q EXCEPT !.dmSent = TRUE, !.pc = "stats"]
               ELSE CatchDelivery(q)]
  /\ UNCHANGED << aside, now, clock, accounts, automations, processedComments, followerTracking,
                  activityLog, webhookProcessingCache, faults, restarts >>

\* storage.updateAutomation(automation.id, {stats: {...currentStats,
\* totalReplies: (currentStats.totalReplies || 0) + 1}}) with the stats of the
\* snapshot read by getAutomationsByInstagramAccountId
Stats(r) ==
  LET q == req[r]
      stats == [CurAuto(q).stats EXCEPT !.totalReplies = @ + 1]
  IN
  /\ q.pc = "stats"
  /\ automations' = updateAutomationStats(CurAuto(q).id, stats)
  /\ trace' = [trace EXCEPT ![r] = Append(@, Rec("updateAutomation", r, q, CurAuto(q).id, TRUE,
                                stats.totalReplies, ""))]
  /\ req' = [req EXCEPT ![r] = [q EXCEPT !.pc = IF q.flow = "comment" THEN "mark2" ELSE "log"]]
  /\ UNCHANGED << aside, now, clock, accounts, processedComments, followerTracking,
                  activityLog, webhookProcessingCache, faults, restarts >>

LogAction(q) ==
  CASE q.flow = "comment" -> (IF q.dmSent THEN "dm_sent" ELSE "comment_reply_sent")
    [] q.flow = "dm" -> "dm_auto_reply"
    [] OTHER -> "story_reaction_reply"

\* storage.createActivityLog(...)
Log(r) ==
  LET q == req[r] IN
  /\ q.pc = "log"
  /\ activityLog' = activityLog (+)
       SetToBag({[userId |-> Acc(q).userId, automationId |-> CurAuto(q).id,
                  action |-> LogAction(q)]})
  /\ trace' = [trace EXCEPT ![r] = Append(@, Rec("createActivityLog", r, q, CurAuto(q).id, TRUE, 0, LogAction(q)))]
  /\ req' = [req EXCEPT ![r] = [q EXCEPT !.pc = "next"]]
  /\ UNCHANGED << aside, now, clock, accounts, automations, processedComments, followerTracking,
                  webhookProcessingCache, faults, restarts >>

\* ------------------------------------------------------------------------
\* Failures of storage calls, time, restarts
\* ------------------------------------------------------------------------
StoragePcs == {"acct", "byUser", "byMedia", "link", "autos", "isProc", "track", "trackIns",
               "mark1", "mark1ins", "stats", "mark2", "mark2ins", "log"}

\* the try/catch around the commenter auto-tracking
InTrackTry(q) == q.pc \in {"track", "trackIns"}

\* the try/catch around a delivery and the bookkeeping that follows it
InDeliveryTry(q) == q.pc \in {"stats", "mark2", "mark2ins", "log"}

\* where a rejected storage promise is handled: the innermost enclosing
\* catch, which is the handler's outer catch (500) for every other await
OnStorageError(q, t) ==
  IF InTrackTry(q) THEN AfterDelayCheck(q, t)
  ELSE IF InDeliveryTry(q) THEN CatchDelivery(q)
  ELSE Respond(q, 500)

StorageFault(r) ==
  /\ req[r].pc \in StoragePcs
  /\ faults < MaxFaults
  /\ faults' = faults + 1
  /\ trace' = [trace EXCEPT ![r] = Append(@, Rec("fault", r, req[r], "", FALSE, 0, req[r].pc))]
  /\ req' = [req EXCEPT ![r] = OnStorageError(@, now)]
  /\ UNCHANGED << aside, now, clock, accounts, automations, processedComments, followerTracking,
                  activityLog, webhookProcessingCache, restarts >>

\* Time passes freely up to MaxNow, and beyond it only as far as a pending
\* timer needs.
Tick ==
  /\ \/ now + TickMs <= MaxNow
     \/ \E r \in Requests : req[r].pc = "sleep" /\ req[r].wakeAt > now
  /\ now' = now + TickMs
  /\ UNCHANGED << aside, clock, accounts, automations, processedComments, followerTracking,
                  activityLog, webhookProcessingCache, req, trace, faults, restarts >>

\* the process restarts: the dedup map is lost and so are the requests in flight
Restart ==
  /\ restarts < MaxRestarts
  /\ restarts' = restarts + 1
  /\ webhookProcessingCache' = EmptyCache
  /\ req' = [r \in Requests |->
       IF req[r].pc \in {"idle", "none", "done", "killed"} THEN req[r]
       ELSE [req[r] EXCEPT !.pc = "killed"]]
  /\ UNCHANGED << aside, now, clock, accounts, automations, processedComments, followerTracking,
                  activityLog, trace, faults >>

Next ==
  \/ \E r \in Requests :
       \/ Start(r) \/ Event(r) \/ Acct(r) \/ ByUser(r) \/ ByMedia(r) \/ Link(r)
       \/ Autos(r) \/ NextAuto(r) \/ IsProc(r) \/ Track(r) \/ TrackIns(r) \/ Sleep(r)
       \/ MarkSelect(r) \/ MarkInsert(r) \/ SendComment(r) \/ Reply(r) \/ SendMsg(r)
       \/ Stats(r) \/ Log(r) \/ StorageFault(r)
  \/ Tick
  \/ Restart

Spec == Init /\ [][Next]_vars

\* ------------------------------------------------------------------------
\* Properties of the comment ledger and of the handler's responses
\* ------------------------------------------------------------------------
\* every history entry, by request and index
Idx == UNION {{<<r, i>> : i \in DOMAIN trace[r]} : r \in Requests}
At(p) == trace[p[1]][p[2]]
Key(e) == <<e.account, e.target, e.auto>>

PrivateReplyCalls == {p \in Idx : At(p).kind = "call" /\ At(p).tag = "sendPrivateReply"}

\* C1: for one (account, comment, automation), however the deliveries of the
\* comment interleave or are spread over restarts and cache expiry, the
\* handler calls sendPrivateReply at most once.
AtMostOnePrivateReply ==
  \A p1 \in PrivateReplyCalls, p2 \in PrivateReplyCalls :
     Key(At(p1)) = Key(At(p2)) => p1 = p2

\* the rows of the ledger for one key, duplicates counted
RECURSIVE SumCopies(_)
SumCopies(rows) ==
  IF rows = {} THEN 0
  ELSE LET row == CHOOSE x \in rows : TRUE
       IN CopiesIn(row, processedComments) + SumCopies(rows \ {row})

LedgerCount(k) == SumCopies(LedgerMatch(k[1], k[2], k[3]))

\* C3: whatever the interleaving of concurrent markCommentProcessed calls
\* (a SELECT, then after an await an INSERT), the ledger holds at most one
\* record per (account, comment, automation).
LedgerAtMostOnePerKey == \A k \in LedgerTriples : LedgerCount(k) <= 1

\* C4: the handler of a webhook POST with object "instagram" never answers
\* with an error status, also when a storage call made for an event throws.
NeverRespondsError ==
  \A r \in Requests : req[r].body.object = "instagram" => req[r].status # 500

\* C2: a delivery that starts when the ledger already holds the record of
\* (account, comment, automation) does nothing for that automation but
\* evaluate and skip it (no provider call, no stats update, no activity-log
\* entry, no ledger insert), and the ledger keeps exactly one record for it.
RedeliveryIsNoOp ==
  /\ \A p \in Idx :
       (At(p).flow = "comment" /\ Key(At(p)) \in req[p[1]].ledgerAtStart)
         => (At(p).kind = "eval" /\ ~At(p).ok)
  /\ \A r \in Requests : \A k \in req[r].ledgerAtStart : LedgerCount(k) = 1

\* a finished first delivery, then a redelivery that evaluated the automation
RedeliverySkipped ==
  \E p \in Idx, d \in Idx :
     /\ req[p[1]].status = 200
     /\ At(p).kind = "eval" /\ Key(At(p)) \in req[p[1]].ledgerAtStart
     /\ d[1] # p[1] /\ At(d).kind = "createActivityLog" /\ Key(At(d)) = Key(At(p))

\* the only way to a 500 is a storage call that failed outside the try blocks
OnlyStorageFaultsEscape ==
  \A r \in Requests :
     req[r].status = 500 => (trace[r] # <<>> /\ trace[r][Len(trace[r])].kind = "fault")

SameEvent(e, f) == e.req = f.req /\ e.pos = f.pos /\ e.flow = f.flow

AutoRow(id) == automations[CHOOSE i \in 1..Len(automations) : automations[i].id = id]

\* the automations of the event's account that come after e's automation
LaterAutos(e) ==
  {automations[i].id : i \in {j \in 1..Len(automations) :
     /\ automations[j].instagramAccountId = e.account
     /\ automations[j].createdAt < AutoRow(e.auto).createdAt}}

FailedCalls == {p \in Idx : At(p).kind = "call" /\ ~At(p).ok}

\* C5: a provider function that throws for one automation (all its attempts
\* failed) never ends the request with an error, and in a request that ends
\* with 200 every automation after the failing one is still evaluated for the
\* same event.
DeliveryFailureContained ==
  /\ OnlyStorageFaultsEscape
  /\ \A p \in FailedCalls :
       req[p[1]].status = 200 =>
         \A id \in LaterAutos(At(p)) :
            \E k \in Idx : /\ k[1] = p[1] /\ k[2] > p[2]
                           /\ At(k).kind = "eval" /\ At(k).auto = id
                           /\ SameEvent(At(k), At(p))

\* a delivery failed, a later automation was evaluated, the request ended 200
FailureThenNextEvaluated ==
  \E p \in FailedCalls, k \in Idx :
     /\ k[1] = p[1] /\ k[2] > p[2] /\ req[p[1]].status = 200
     /\ At(k).kind = "eval" /\ SameEvent(At(k), At(p)) /\ At(k).auto # At(p).auto

CommentOf(e) == req[e.req].body.entry[e.pos[1]].changes[e.pos[2]].value
MsgOf(e) == req[e.req].body.entry[e.pos[1]].messaging[e.pos[3]]

SomeWordIn(words, text) ==
  \E i \in 1..Len(words) : includes(toLowerCase(text), toLowerCase(words[i]))

Evals(flow) == {p \in Idx : At(p).kind = "eval" /\ At(p).flow = flow}

\* C6: on a comment event an automation reaches delivery iff it is a
\* comment_to_dm automation, active, within its schedule, its mediaId is unset
\* or the event's, some configured keyword is a case-insensitive substring of
\* the comment text, and the ledger has no record for the pair.
CommentFiresIffMatch ==
  \A p \in Evals("comment") :
     LET e == At(p)
         a == AutoRow(e.auto)
     IN e.ok <=> /\ a.type = "comment_to_dm"
                 /\ a.isActive
                 /\ isWithinSchedule(a.config, clock)
                 /\ (a.config.mediaId = "" \/ a.config.mediaId = CommentOf(e).mediaId)
                 /\ SomeWordIn(CommentKeywords(a.config), CommentOf(e).text)
                 /\ e.tag # "inLedger"

\* C7: on a message event with sender and text an automation fires iff it
\* is an active auto_dm_reply or mention_reply automation within its schedule
\* whose trigger-word list is empty or has a word that is a case-insensitive
\* substring of the text; a welcome_message automation does not fire.
DmFiresIffMatch ==
  \A p \in Evals("dm") :
     LET e == At(p)
         a == AutoRow(e.auto)
     IN e.ok <=> /\ a.type \in {"auto_dm_reply", "mention_reply"}
                 /\ a.isActive
                 /\ isWithinSchedule(a.config, clock)
                 /\ \/ Len(TriggerWords(a.config)) = 0
                    \/ SomeWordIn(TriggerWords(a.config), MsgOf(e).text)

StoryGate(a) ==
  a.type = "story_reaction" /\ a.isActive /\ isWithinSchedule(a.config, clock)

\* C8 as stated: on a reaction event every active story_reaction automation
\* within its schedule fires, with no other condition.
StoryFiresUnconditionally ==
  \A p \in Evals("story") : StoryGate(AutoRow(At(p).auto)) => At(p).ok

\* a direct message is attempted for the automation evaluated at p, or the
\* request is still on its way to the send (or was ended by a restart)
SendAttempted(p) ==
  \/ \E k \in Idx : /\ k[1] = p[1] /\ k[2] > p[2] /\ At(k).kind = "call"
                    /\ At(k).tag = "sendDirectMessage"
                    /\ SameEvent(At(k), At(p)) /\ At(k).auto = At(p).auto
  \/ /\ p[2] = Len(trace[p[1]])
     /\ req[p[1]].pc \in {"sleep", "send", "killed"}

\* C8, amended: on a reaction event an automation fires iff it is an active
\* story_reaction automation within its schedule with a non-empty
\* messageTemplate, and for every automation that fires a direct message is
\* attempted.
StoryFiresIffTemplate ==
  \A p \in Evals("story") :
     LET e == At(p)
         a == AutoRow(e.auto)
     IN /\ e.ok <=> (StoryGate(a) /\ a.config.messageTemplate # <<>>)
        /\ e.ok => SendAttempted(p)

\* a story_reaction automation fired and its direct message was sent, while
\* another automation was passed over on the same event
StoryFiredAndSkipped ==
  \E p \in Evals("story"), k \in Idx, s \in Evals("story") :
     /\ At(p).ok /\ k[1] = p[1] /\ At(k).kind = "call" /\ At(k).ok
     /\ SameEvent(At(k), At(p)) /\ At(k).auto = At(p).auto
     /\ SameEvent(At(s), At(p)) /\ ~At(s).ok

\* the event of the entry at p is over: the request went on to another event
\* or ended normally
EventOver(p) ==
  \/ req[p[1]].status = 200
  \/ \E k \in Idx : k[1] = p[1] /\ k[2] > p[2] /\ ~SameEvent(At(k), At(p))

AccountAutos(acc) ==
  {automations[i].id : i \in {j \in 1..Len(automations) :
     automations[j].instagramAccountId = acc}}

\* C9: within one event the automations are handled strictly one after
\* another in descending createdAt order (everything recorded for one
\* automation precedes everything recorded for the next), the loop does not
\* stop at the first match (once the event is over every automation of the
\* account was evaluated), and every automation that fired was dispatched.
FanOutInOrder ==
  /\ \A p \in Idx, k \in Idx :
       ( /\ p[1] = k[1] /\ p[2] < k[2] /\ SameEvent(At(p), At(k))
         /\ At(p).kind # "fault" /\ At(k).kind # "fault"
         /\ At(p).auto # At(k).auto )
       => AutoRow(At(p).auto).createdAt > AutoRow(At(k).auto).createdAt
  /\ \A p \in Idx :
       (At(p).kind = "eval" /\ EventOver(p)) =>
         /\ \A id \in AccountAutos(At(p).account) :
              \E k \in Idx : /\ At(k).kind = "eval" /\ SameEvent(At(k), At(p))
                             /\ At(k).auto = id
         /\ At(p).ok =>
              \E k \in Idx : /\ k[2] > p[2] /\ At(k).kind = "dispatch"
                             /\ SameEvent(At(k), At(p)) /\ At(k).auto = At(p).auto

\* two automations matched one event; both were dispatched, the younger first
BothDispatched ==
  \E p \in Idx, k \in Idx :
     /\ p[1] = k[1] /\ p[2] < k[2] /\ SameEvent(At(p), At(k))
     /\ At(p).kind = "dispatch" /\ At(k).kind = "dispatch"
     /\ At(p).auto = "a2" /\ At(k).auto = "a1"
     /\ req[p[1]].status = 200

ButtonSends ==
  {p \in Idx : /\ At(p).kind = "call" /\ At(p).tag = "sendDirectMessage"
               /\ At(p).attempts[1].via = "template"}

\* the caller's bookkeeping after the send at p: the stats update, then the
\* activity-log entry, unless the request is still on its way to them, was
\* ended by a restart, or the storage write itself failed
SuccessRecorded(p) ==
  LET t == trace[p[1]]
      i == p[2]
      q == req[p[1]]
  IN /\ Len(t) = i => q.pc \in {"stats", "killed"}
     /\ Len(t) > i =>
          \/ t[i + 1].kind = "fault"
          \/ /\ t[i + 1].kind = "updateAutomation" /\ t[i + 1].auto = t[i].auto
             /\ t[i + 1].n > 0
             /\ Len(t) = i + 1 => q.pc \in {"log", "killed"}
             /\ Len(t) > i + 1 =>
                  \/ t[i + 2].kind = "fault"
                  \/ t[i + 2].kind = "createActivityLog" /\ t[i + 2].auto = t[i].auto

NothingRecorded(p) ==
  \A k \in Idx :
     (k[1] = p[1] /\ SameEvent(At(k), At(p)) /\ At(k).auto = At(p).auto)
       => At(k).kind \notin {"updateAutomation", "createActivityLog"}

AllFailed(e) == \A i \in DOMAIN e.attempts : e.attempts[i].status # 200

\* C10: for a direct message with button links, sendDirectMessage makes at
\* most three calls; when the buttons call fails and the plain-text retry
\* succeeds it returns and the caller records the success; when every call
\* fails, the plain-text retry was among them, it throws, the caller records
\* nothing for the automation and the request does not end with an error.
ButtonsFallback ==
  /\ OnlyStorageFaultsEscape
  /\ \A p \in ButtonSends :
       LET e == At(p) IN
       /\ Len(e.attempts) <= 3
       /\ ( /\ e.attempts[1].status # 200
            /\ \E i \in DOMAIN e.attempts :
                  e.attempts[i].via = "text_only" /\ e.attempts[i].status = 200 )
          => (e.ok /\ SuccessRecorded(p))
       /\ AllFailed(e)
          => /\ ~e.ok
             /\ \E i \in DOMAIN e.attempts : e.attempts[i].via = "text_only"
             /\ NothingRecorded(p)

\* the buttons call failed, the plain-text retry succeeded and the caller
\* wrote the stats and the activity log
TextRetryRecorded ==
  \E p \in ButtonSends :
     /\ At(p).attempts[1].status # 200 /\ At(p).ok
     /\ At(p).attempts[Len(At(p).attempts)].via = "text_only"
     /\ Len(trace[p[1]]) >= p[2] + 2
     /\ trace[p[1]][p[2] + 1].kind = "updateAutomation"
     /\ trace[p[1]][p[2] + 2].kind = "createActivityLog"

\* ------------------------------------------------------------------------
\* Properties of the bookkeeping that follows a delivery
\* ------------------------------------------------------------------------
\* every request has ended normally and no storage call has failed
Quiescent ==
  /\ \A r \in Requests : req[r].pc \in {"none", "done"} /\ req[r].status # 500
  /\ \A p \in Idx : At(p).kind # "fault"

\* the (request, event) pairs in which a provider call for automation id
\* succeeded
SuccessfulDeliveries(id) ==
  {<<e.req, e.pos, e.flow>> :
     e \in {At(p) : p \in {x \in Idx : At(x).kind = "call" /\ At(x).ok /\ At(x).auto = id}}}

RECURSIVE SumLog(_)
SumLog(rows) ==
  IF rows = {} THEN 0
  ELSE LET row == CHOOSE x \in rows : TRUE
       IN CopiesIn(row, activityLog) + SumLog(rows \ {row})

LogCount(id) == SumLog({row \in BagToSet(activityLog) : row.automationId = id})

AutoIds == {automations[i].id : i \in 1..Len(automations)}

\* C11: when all requests have ended, an automation's stats.totalReplies
\* (initially 0) and the number of its activity-log entries both equal the
\* number of its successful deliveries, whether these were made by one request
\* or by requests handled concurrently.
TotalRepliesCountsDeliveries ==
  Quiescent =>
    \A id \in AutoIds :
       /\ AutoRow(id).stats.totalReplies = Cardinality(SuccessfulDeliveries(id))
       /\ LogCount(id) = Cardinality(SuccessfulDeliveries(id))

SameHandling(e, f) == SameEvent(e, f) /\ e.auto = f.auto

\* the handling of the automation of entry p is over
AutoOver(p) ==
  \/ req[p[1]].status = 200
  \/ \E k \in Idx : /\ k[1] = p[1] /\ k[2] > p[2] /\ At(k).kind # "fault"
                    /\ ~SameHandling(At(k), At(p))

\* deliveries whose provider calls were made and all failed
FailedDeliveries ==
  {p \in Idx :
     /\ At(p).kind = "dispatch" /\ AutoOver(p)
     /\ \E k \in Idx : At(k).kind = "call" /\ SameHandling(At(k), At(p))
     /\ \A k \in Idx : (At(k).kind = "call" /\ SameHandling(At(k), At(p))) => ~At(k).ok}

SendActions == {"dm_sent", "comment_reply_sent", "dm_auto_reply", "story_reaction_reply"}

\* C12: when every delivery attempt for a matched automation has failed, the
\* activity log gets an entry for it with a non-send action, and no entry
\* whose action says that something was sent.
FailureLoggedAsNonSend ==
  \A p \in FailedDeliveries :
     /\ \E k \in Idx : /\ At(k).kind = "createActivityLog" /\ SameHandling(At(k), At(p))
                       /\ At(k).tag \notin SendActions
     /\ \A k \in Idx : (At(k).kind = "createActivityLog" /\ SameHandling(At(k), At(p)))
                         => At(k).tag \notin SendActions

\* C13: once the comment flow has finished the delivery for a (comment,
\* automation) pair, the ledger rows of the pair carry the outcome ("dm_sent"
\* when the private reply succeeded, otherwise "comment_reply") and no longer
\* the provisional "processing".
LedgerActionIsOutcome ==
  \A p \in Idx :
     (At(p).kind = "createActivityLog" /\ At(p).flow = "comment") =>
       \A row \in LedgerMatch(At(p).account, At(p).target, At(p).auto) :
          row.action = IF At(p).tag = "dm_sent" THEN "dm_sent" ELSE "comment_reply"

\* a time string that does not parse to numeric hours and minutes
MalformedTime(opt) ==
  /\ TruthyStr(opt)
  /\ LET parts == ParseParts(opt[1])
     IN parts[1] = NaN \/ (Len(parts) >= 2 /\ parts[2] = NaN)

\* C16: an automation with scheduleEnabled and a malformed scheduleStartTime
\* or scheduleEndTime does not fire.
MalformedScheduleSkips ==
  \A p \in Idx :
     LET c == AutoRow(At(p).auto).config IN
     ( /\ At(p).kind = "eval" /\ c.scheduleEnabled
       /\ (MalformedTime(c.scheduleStartTime) \/ MalformedTime(c.scheduleEndTime)) )
     => ~At(p).ok

MessageSends == {p \in Idx : At(p).kind = "call" /\ At(p).tag = "sendDirectMessage"}

\* C20: while no time has passed and the process has not restarted, two
\* deliveries of the same messaging event lead to at most one reply per
\* automation (the second delivery is suppressed).
MessagingRedeliverySuppressed ==
  (now = TickMs /\ restarts = 0) =>
    \A p \in MessageSends, k \in MessageSends :
       ( /\ Key(At(p)) = Key(At(k)) /\ At(p).flow = At(k).flow
         /\ MsgOf(At(p)) = MsgOf(At(k)) )
       => p[1] = k[1]

\* ------------------------------------------------------------------------
\* replaceTemplateVariables
\* ------------------------------------------------------------------------
\* new RegExp(`\\{${key}\\}`, 'gi') matches at position i of s
MatchAt(s, i, key) ==
  /\ i + Len(key) + 1 <= Len(s)
  /\ s[i] = "{"
  /\ toLowerCase(SubSeq(s, i + 1, i + Len(key))) = toLowerCase(key)
  /\ s[i + Len(key) + 1] = "}"

\* the replacement string of String.prototype.replace is a pattern: "$$"
\* stands for "$" and "$&" for the matched text; a "$" followed by anything
\* else used here is literal
RECURSIVE ExpandReplacement(_, _, _)
ExpandReplacement(value, i, matched) ==
  IF i > Len(value) THEN <<>>
  ELSE IF value[i] = "$" /\ i < Len(value) /\ value[i + 1] = "$"
       THEN <<"$">> \o ExpandReplacement(value, i + 2, matched)
  ELSE IF value[i] = "$" /\ i < Len(value) /\ value[i + 1] = "&"
       THEN matched \o ExpandReplacement(value, i + 2, matched)
  ELSE << value[i] >> \o ExpandReplacement(value, i + 1, matched)

\* result.replace(regex, value) with the g flag, from position i on
RECURSIVE ReplaceFrom(_, _, _, _)
ReplaceFrom(s, i, key, value) ==
  IF i > Len(s) THEN <<>>
  ELSE IF MatchAt(s, i, key)
       THEN ExpandReplacement(value, 1, SubSeq(s, i, i + Len(key) + 1))
              \o ReplaceFrom(s, i + Len(key) + 2, key, value)
  ELSE << s[i] >> \o ReplaceFrom(s, i + 1, key, value)

\* the loop over Object.entries(variables), from entry i on
RECURSIVE ReplaceVars(_, _, _)
ReplaceVars(result, variables, i) ==
  IF i > Len(variables) THEN result
  ELSE ReplaceVars(ReplaceFrom(result, 1, variables[i][1], variables[i][2]), variables, i + 1)

replaceTemplateVariables(template, variables) == ReplaceVars(template, variables, 1)

\* ------------------------------------------------------------------------
\* The helper functions applied on their own
\* ------------------------------------------------------------------------
MaxHelperNow == 240003

TimeStrings == {T0900, T1700, T2200, T0600, T9, TBad, TBadMinutes}

ScheduleConfigs ==
  {[Sched(BaseConfig, days, st, fin) EXCEPT !.scheduleEnabled = en] :
     en \in BOOLEAN, days \in {<<>>, <<"mon">>, <<"tue">>, <<"TUE", "Mon">>},
     st \in {None, Some(<<>>)} \cup {Some(t) : t \in TimeStrings},
     fin \in {None} \cup {Some(t) : t \in TimeStrings}}

Clocks ==
  {[day |-> d, hours |-> t[1], minutes |-> t[2]] :
     d \in {"Sun", "Mon", "Tue"},
     t \in {<<0, 30>>, <<1, 0>>, <<5, 59>>, <<6, 0>>, <<6, 1>>, <<8, 59>>, <<9, 0>>, <<10, 0>>,
            <<17, 0>>, <<17, 1>>, <<21, 59>>, <<22, 0>>, <<23, 0>>}}

Templates ==
  { <<"h", " ", "{", "u", "}", "!", "{", "k", "}">>,
    <<"{", "U", "}", "{", "u", "}">>,
    <<"{", "k", "}", "{", "K", "}">>,
    <<"h", "i">>,
    <<"{", "u">>,
    <<>> }

Values == { <<"j">>, <<>>, <<"$", "$">>, <<"$", "5">> }

\* the maps of the three flows: {username, keyword} and {username}
VariableMaps ==
  {<< <<S_u, v1>>, <<S_k, v2>> >> : v1 \in {<<"j">>, <<>>}, v2 \in Values}
    \cup {<< <<S_u, v1>> >> : v1 \in {<<"j">>, <<>>}}

DedupKeys == {"comment:c1", "comment:c2"}

\* a string of n characters, each character named by its position
Text(n) == [i \in 1..n |-> i]

MessageLengths == {0, 1, 79, 80, 81, 159, 160, 161, 200}

ButtonTitleLengths == {0, 19, 20, 21, 45}

\* n buttons with titles of the given length
Buttons(n, len) == [k \in 1..n |-> [url |-> <<"url", k>>, title |-> Text(len)]]

\* String.prototype.substring(a, b) for 0 <= a <= b: both ends are clamped to
\* the length
substring(str, a, b) ==
  IF a >= Len(str) THEN <<>>
  ELSE SubSeq(str, a + 1, IF b < Len(str) THEN b ELSE Len(str))

\* Array.prototype.slice(0, n)
slice(list, n) == SubSeq(list, 1, IF n < Len(list) THEN n ELSE Len(list))

\* faulty variant: the payload keeps every button and the whole titles
messagePayloadUncut(finalMessage, finalButtons) ==
  IF Len(finalButtons) > 0
  THEN [kind |-> "template",
        title |-> substring(finalMessage, 0, 80),
        subtitle |-> IF Len(finalMessage) > 80
                     THEN Some(substring(finalMessage, 80, 160)) ELSE None,
        buttons |-> [k \in DOMAIN finalButtons |->
                       [type |-> "web_url", url |-> finalButtons[k].url,
                        title |-> finalButtons[k].title]]]
  ELSE [kind |-> "text", text |-> finalMessage]

\* the messagePayload that sendDirectMessage builds
messagePayload(finalMessage, finalButtons) ==
  IF Len(finalButtons) > 0
  THEN [kind |-> "template",
        title |-> substring(finalMessage, 0, 80),
        subtitle |-> IF Len(finalMessage) > 80
                     THEN Some(substring(finalMessage, 80, 160)) ELSE None,
        buttons |-> [k \in DOMAIN slice(finalButtons, 3) |->
                       [type |-> "web_url", url |-> slice(finalButtons, 3)[k].url,
                        title |-> substring(slice(finalButtons, 3)[k].title, 0, 20)]]]
  ELSE [kind |-> "text", text |-> finalMessage]

\* a query parameter or an environment variable: absent (undefined) or a string
QueryValues == {None, Some("subscribe"), Some("unsubscribe"), Some("tok"), Some("")}

VerifyTokens == {None, Some("tok"), Some("")}

\* GET /api/webhooks/instagram: the comparison is ===, so two absent values are equal
WebhookVerification(mode, token, challenge, verifyToken) ==
  IF mode = Some("subscribe") /\ token = verifyToken
    THEN [status |-> 200, body |-> challenge]
    ELSE [status |-> 403, body |-> Some("Forbidden")]

Call(fn, args) == [fn |-> fn, args |-> args, result |-> <<>>]

InitHelpers ==
  /\ InitData(AccountsTable("b1", "tok", "ptok"), Table(CommentOk, DmOk), NoBody, NoBody,
              MaxFaults, MaxRestarts)
  /\ \/ \E config \in ScheduleConfigs, clk \in Clocks :
          pure = Call("isWithinSchedule", <<config, clk>>)
     \/ \E template \in Templates, variables \in VariableMaps :
          pure = Call("replaceTemplateVariables", <<template, variables>>)
     \/ pure = Call("isWebhookDuplicate", <<>>)
     \/ \E len \in MessageLengths, n \in 0..5, titleLen \in ButtonTitleLengths :
          pure = Call("sendDirectMessage", <<Text(len), Buttons(n, titleLen)>>)
     \/ \E mode \in QueryValues, token \in QueryValues, verifyToken \in VerifyTokens :
          pure = Call("GET /api/webhooks/instagram",
                      <<mode, token, Some("1158201444"), verifyToken>>)

HelperUnchanged ==
  UNCHANGED << clock, accounts, automations, processedComments, followerTracking,
               activityLog, req, trace, faults, restarts,
               scheduledMessages, runs, api, backups, calls >>

ApplySchedule ==
  /\ pure.fn = "isWithinSchedule" /\ pure.result = <<>>
  /\ pure' = [pure EXCEPT !.result = << isWithinSchedule(pure.args[1], pure.args[2]) >>]
  /\ UNCHANGED << now, webhookProcessingCache >>
  /\ HelperUnchanged

ApplyTemplate ==
  /\ pure.fn = "replaceTemplateVariables" /\ pure.result = <<>>
  /\ pure' = [pure EXCEPT !.result =
                << replaceTemplateVariables(pure.args[1], pure.args[2]) >>]
  /\ UNCHANGED << now, webhookProcessingCache >>
  /\ HelperUnchanged

\* one call of isWebhookDuplicate(key) at the current time
ApplyDedup ==
  /\ pure.fn = "isWebhookDuplicate"
  /\ \E key \in DedupKeys :
       /\ pure' = [fn |-> "isWebhookDuplicate",
                   args |-> <<key, now, webhookProcessingCache>>,
                   result |-> << isWebhookDuplicate(webhookProcessingCache, key, now) >>]
       /\ webhookProcessingCache' = CacheAfterCall(webhookProcessingCache, key, now)
  /\ UNCHANGED now
  /\ HelperUnchanged

\* time passes between two calls
Elapse ==
  /\ pure.fn = "isWebhookDuplicate"
  /\ \E d \in {WEBHOOK_CACHE_TTL - 1, WEBHOOK_CACHE_TTL, WEBHOOK_CACHE_TTL + 1} :
       /\ now + d <= MaxHelperNow
       /\ now' = now + d
  /\ UNCHANGED << webhookProcessingCache, pure >>
  /\ HelperUnchanged

\* one GET /api/webhooks/instagram request
ApplyVerification ==
  /\ pure.fn = "GET /api/webhooks/instagram" /\ pure.result = <<>>
  /\ pure' = [pure EXCEPT !.result =
                << WebhookVerification(pure.args[1], pure.args[2], pure.args[3],
                                       pure.args[4]) >>]
  /\ UNCHANGED << now, webhookProcessingCache >>
  /\ HelperUnchanged

\* sendDirectMessage up to the request: the payload is built
ApplyPayload ==
  /\ pure.fn = "sendDirectMessage" /\ pure.result = <<>>
  /\ pure' = [pure EXCEPT !.result = << messagePayload(pure.args[1], pure.args[2]) >>]
  /\ UNCHANGED << now, webhookProcessingCache >>
  /\ HelperUnchanged

NextHelpers ==
  \/ ApplySchedule \/ ApplyTemplate \/ ApplyDedup \/ Elapse
  \/ ApplyVerification \/ ApplyPayload

SpecHelpers == InitHelpers /\ [][NextHelpers]_vars

\* ------------------------------------------------------------------------
\* Properties of the helper functions
\* ------------------------------------------------------------------------
Applied(fn) == pure.fn = fn /\ pure.result # <<>>

\* the value of the well-formed time strings on the HHMM scale
Hhmm(t) ==
  CASE t = T0900 -> 900 [] t = T9 -> 900 [] t = T1700 -> 1700
    [] t = T2200 -> 2200 [] t = T0600 -> 600

WellFormedTime(opt) == TruthyStr(opt) /\ opt[1] \in {T0900, T9, T1700, T2200, T0600}

LowerDay(d) ==
  CASE d \in {"mon", "MON", "Mon"} -> "mon"
    [] d \in {"tue", "TUE", "Tue"} -> "tue"
    [] d \in {"sun", "SUN", "Sun"} -> "sun"

DayCheck(config, clk) ==
  \/ Len(config.scheduleDays) = 0
  \/ \E i \in 1..Len(config.scheduleDays) : LowerDay(config.scheduleDays[i]) = LowerDay(clk.day)

InWindow(current, start, end) ==
  IF start <= end THEN start <= current /\ current <= end
  ELSE current >= start \/ current <= end

CurrentHhmm(clk) == clk.hours * 100 + clk.minutes

\* C14: with a schedule in force, a passing day check and well-formed start
\* and end times, isWithinSchedule accepts exactly the times inside the window:
\* start <= current <= end when start <= end, and current >= start or
\* current <= end when the window wraps midnight.
TimeWindow ==
  LET config == pure.args[1]
      clk == pure.args[2]
  IN ( /\ Applied("isWithinSchedule")
       /\ config.scheduleEnabled /\ DayCheck(config, clk)
       /\ WellFormedTime(config.scheduleStartTime)
       /\ WellFormedTime(config.scheduleEndTime) )
     => pure.result[1] = InWindow(CurrentHhmm(clk), Hhmm(config.scheduleStartTime[1]),
                                  Hhmm(config.scheduleEndTime[1]))

\* 22:00-06:00 accepts 00:30
OvernightAccepts ==
  /\ Applied("isWithinSchedule")
  /\ pure.args[1].scheduleEnabled /\ pure.args[1].scheduleDays = <<>>
  /\ pure.args[1].scheduleStartTime = Some(T2200)
  /\ pure.args[1].scheduleEndTime = Some(T0600)
  /\ CurrentHhmm(pure.args[2]) = 30
  /\ pure.result[1]

\* C15: for time strings that parse, isWithinSchedule accepts iff
\* scheduleEnabled is off, or the day check passes (no non-empty day list, or
\* today is in it, case-insensitively) and the time check passes (start or end
\* missing, or the current time inside the window).
ScheduleGate ==
  LET config == pure.args[1]
      clk == pure.args[2]
      timeCheck == \/ ~TruthyStr(config.scheduleStartTime)
                   \/ ~TruthyStr(config.scheduleEndTime)
                   \/ InWindow(CurrentHhmm(clk), Hhmm(config.scheduleStartTime[1]),
                               Hhmm(config.scheduleEndTime[1]))
  IN ( /\ Applied("isWithinSchedule")
       /\ ~TruthyStr(config.scheduleStartTime) \/ WellFormedTime(config.scheduleStartTime)
       /\ ~TruthyStr(config.scheduleEndTime) \/ WellFormedTime(config.scheduleEndTime) )
     => pure.result[1] = (~config.scheduleEnabled \/ (DayCheck(config, clk) /\ timeCheck))

\* the day check fails while the time is inside the window: not eligible
DayRejectsInsideWindow ==
  /\ Applied("isWithinSchedule")
  /\ pure.args[1].scheduleEnabled /\ pure.args[1].scheduleDays = <<"tue">>
  /\ pure.args[2].day = "Mon"
  /\ pure.args[1].scheduleStartTime = Some(T0900)
  /\ pure.args[1].scheduleEndTime = Some(T1700)
  /\ CurrentHhmm(pure.args[2]) = 1000
  /\ ~pure.result[1]

\* the placeholder {name}, in any case, stands at position i of s
PlaceholderAt(s, i, name) ==
  /\ i + Len(name) + 1 <= Len(s)
  /\ s[i] = "{" /\ s[i + Len(name) + 1] = "}"
  /\ \A j \in 1..Len(name) : LowerChar(s[i + j]) = LowerChar(name[j])

\* the template from position i on with every placeholder of a variable of
\* the map replaced by the variable's value
RECURSIVE Substituted(_, _, _)
Substituted(template, i, variables) ==
  LET hits == {v \in 1..Len(variables) : PlaceholderAt(template, i, variables[v][1])}
      v == CHOOSE x \in hits : TRUE
  IN IF i > Len(template) THEN <<>>
     ELSE IF hits # {}
          THEN variables[v][2]
                 \o Substituted(template, i + Len(variables[v][1]) + 2, variables)
     ELSE << template[i] >> \o Substituted(template, i + 1, variables)

\* C17: replaceTemplateVariables returns the template with every occurrence
\* of {name}, in any case, replaced by the value of the variable name of the
\* map, and everything else unchanged.
TemplateSubstitutes ==
  Applied("replaceTemplateVariables")
    => pure.result[1] = Substituted(pure.args[1], 1, pure.args[2])

Letters == {"u", "k", "U", "K", "h", "i", "j"}

\* a literal {name} placeholder in s
HasPlaceholder(s) ==
  \E i \in 1..Len(s), j \in 1..Len(s) :
     /\ i + 1 < j /\ s[i] = "{" /\ s[j] = "}"
     /\ \A m \in (i + 1)..(j - 1) : s[m] \in Letters

\* C18: the rendered message contains no literal {name} placeholder; a
\* placeholder without a variable in the map is rendered as the empty string.
NoPlaceholderLeft ==
  Applied("replaceTemplateVariables") => ~HasPlaceholder(pure.result[1])

\* C19: the first call of isWebhookDuplicate for a key returns false and
\* records the time of the call; a call less than 60000 ms after the recorded
\* time returns true and leaves the recorded time as it is; a call 60000 ms or
\* more after it returns false and records the time of the call.
DedupWindow ==
  Applied("isWebhookDuplicate") =>
    LET key == pure.args[1]
        t == pure.args[2]
        before == pure.args[3]
        result == pure.result[1]
    IN /\ key \in DOMAIN webhookProcessingCache
       /\ IF key \notin DOMAIN before
          THEN ~result /\ webhookProcessingCache[key] = t
          ELSE IF t - before[key] < 60000
          THEN result /\ webhookProcessingCache[key] = before[key]
          ELSE ~result /\ webhookProcessingCache[key] = t

\* a call 59999 ms after the recorded one is a duplicate, and one of 60000 ms
\* after it has been seen to be none
DuplicateJustInsideWindow ==
  /\ Applied("isWebhookDuplicate")
  /\ pure.args[1] \in DOMAIN pure.args[3]
  /\ pure.args[2] - pure.args[3][pure.args[1]] = 59999
  /\ pure.result[1]

\* C19, in the handler: while no time has passed and the process has not
\* restarted, at most one request gets past the dedup check for a comment id.
DuplicateCommentSkipped ==
  (now = TickMs /\ restarts = 0) =>
    \A p \in Idx, k \in Idx :
       (At(p).flow = "comment" /\ At(k).flow = "comment" /\ At(p).target = At(k).target)
         => p[1] = k[1]

\* ------------------------------------------------------------------------
\* Account resolution
\* ------------------------------------------------------------------------
\* the comment events whose account has been resolved
ResolvedComments ==
  {r \in Requests : req[r].flow = "comment" /\ req[r].account # None
                      /\ req[r].pc \notin {"none", "idle", "done"}}

\* the account has an active comment_to_dm automation configured for exactly
\* this media id
ConfiguredForMedia(accountId, mediaId) ==
  \E i \in DOMAIN automations :
    /\ automations[i].instagramAccountId = accountId
    /\ automations[i].isActive
    /\ automations[i].type = "comment_to_dm"
    /\ automations[i].config.mediaId # ""
    /\ automations[i].config.mediaId = mediaId

\* C21: a comment event whose entry id matches no account by business id or
\* by external user id is attributed to an account (and that account's
\* business id is then the only one that can be written) only if one of the
\* account's active comment_to_dm automations is configured for the event's
\* media id.
MediaAttributionNeedsConfiguredMedia ==
  \A r \in ResolvedComments :
    req[r].via = "byMedia" =>
      ConfiguredForMedia(Acc(req[r]).id, CurComment(req[r]).mediaId)

\* the account an entry id stands for: by business id first, then by
\* external user id
OwnersOf(entryId) ==
  IF AccountsByBusinessId(entryId) # {} THEN AccountsByBusinessId(entryId)
  ELSE AccountsByInstagramUserId(entryId)

\* the messaging events of a delivery that carry a sender and the given part
\* (a text for "dm", a reaction for "story")
MessagingEvents(r, flow) ==
  {<<ei, mi>> \in UNION {{ei} \X DOMAIN req[r].body.entry[ei].messaging :
                            ei \in DOMAIN req[r].body.entry} :
     LET m == req[r].body.entry[ei].messaging[mi]
     IN m.senderId # "" /\ IF flow = "dm" THEN m.text # <<>> ELSE m.reaction}

\* the automations of the account were evaluated for the messaging event
EvaluatedFor(r, ei, mi, flow, accountId) ==
  \E i \in DOMAIN trace[r] :
    /\ trace[r][i].kind = "eval" /\ trace[r][i].flow = flow
    /\ trace[r][i].pos = <<ei, Len(req[r].body.entry[ei].changes), mi>>
    /\ trace[r][i].account = accountId

\* C22: message and story-reaction events reach the account their entry id
\* stands for, found by business id first and by external user id otherwise:
\* once the delivery has been answered, the automations of that account have
\* been evaluated for every such event.
MessagingReachesOwner ==
  \A r \in Requests :
    (req[r].pc = "done" /\ req[r].status = 200 /\ req[r].body.object = "instagram") =>
      \A flow \in {"dm", "story"} : \A ev \in MessagingEvents(r, flow) :
        \A a \in OwnersOf(req[r].body.entry[ev[1]].id) :
          EvaluatedFor(r, ev[1], ev[2], flow, a)

\* ------------------------------------------------------------------------
\* Order of processing within one delivery
\* ------------------------------------------------------------------------
\* where a history entry's sub-event stands in the payload: the entry, then
\* changes before messaging events, then the index in its list, then the
\* message part before the reaction part of one messaging event
PayloadRank(e) ==
  IF e.flow = "comment" THEN <<e.pos[1], 0, e.pos[2], 0>>
  ELSE <<e.pos[1], 1, e.pos[3], IF e.flow = "dm" THEN 0 ELSE 1>>

LexLt(a, b) ==
  \E k \in 1..4 : a[k] < b[k] /\ \A j \in 1..(k - 1) : a[j] = b[j]

\* C23: within one delivery the entries are processed in payload order, in
\* an entry the comment changes in list order and then the messaging events
\* in list order, and everything done for one sub-event (delay and provider
\* calls included) is over before anything is done for the next.
ProcessedInPayloadOrder ==
  \A r \in Requests : \A i \in DOMAIN trace[r], j \in DOMAIN trace[r] :
    i < j => ~LexLt(PayloadRank(trace[r][j]), PayloadRank(trace[r][i]))

\* two comments and then a message of one entry were all delivered, the
\* second comment after the delay and the provider call for the first
ThreeSubEventsInOrder ==
  \E r \in Requests :
    /\ req[r].pc = "done"
    /\ \E a \in DOMAIN automations : automations[a].config.delaySeconds > 0
    /\ \E i \in DOMAIN trace[r], j \in DOMAIN trace[r], k \in DOMAIN trace[r] :
         /\ i < j /\ j < k
         /\ trace[r][i].kind = "call" /\ trace[r][i].pos = <<1, 2, 0>>
         /\ trace[r][j].kind = "call" /\ trace[r][j].pos = <<1, 3, 0>>
         /\ trace[r][k].kind = "call" /\ trace[r][k].pos = <<1, 3, 1>>

\* ------------------------------------------------------------------------
\* Public replies to a comment
\* ------------------------------------------------------------------------
PublicReplyCalls == {p \in Idx : At(p).kind = "call" /\ At(p).tag = "replyToComment"}

ClientError(status) == status >= 400 /\ status <= 499

\* C29: replyToComment calls the primary endpoint once; after any 4xx it
\* retries exactly once on the Facebook Graph host and throws if the retry
\* fails; after any other failure it throws without a retry; it never makes
\* more than two calls.
ReplyRetriesOnceOnClientError ==
  \A p \in PublicReplyCalls :
    LET a == At(p).attempts IN
    /\ Len(a) \in {1, 2}
    /\ a[1].via = "instagram"
    /\ At(p).ok <=> a[Len(a)].status = 200
    /\ Len(a) = 2 <=> ClientError(a[1].status)
    /\ Len(a) = 2 => a[2].via = "facebook"

\* the public replies posted while handling the automation of the private
\* reply at p
RepliesFor(p) ==
  {k \in PublicReplyCalls : k[1] = p[1] /\ SameHandling(At(k), At(p))}

\* what the automation's configuration asks to be posted whatever the
\* outcome of the private reply
ConfiguredReplies(config) ==
  IF config.commentReplyEnabled /\ config.commentReplyTemplate # <<>> THEN 1 ELSE 0

\* C30: in the comment-to-dm flow a failed private reply of an automation
\* with followersOnly and a non-empty fallbackCommentMessage is followed by a
\* public fallback reply; a private reply that succeeded is followed by no
\* fallback reply; and the generic direct-message call is never used for a
\* comment.
FollowersOnlyFallback ==
  /\ \A p \in PrivateReplyCalls :
       LET c == AutoRow(At(p).auto).config IN
       /\ (~At(p).ok /\ c.followersOnly /\ c.fallbackCommentMessage # <<>> /\ AutoOver(p))
            => Cardinality(RepliesFor(p)) = ConfiguredReplies(c) + 1
       /\ At(p).ok => Cardinality(RepliesFor(p)) <= ConfiguredReplies(c)
  /\ \A p \in Idx :
       (At(p).kind = "call" /\ At(p).flow = "comment") => At(p).tag # "sendDirectMessage"

\* ------------------------------------------------------------------------
\* Scheduled messages: the API routes and the processor started by
\* setInterval(..., 60000)
\* ------------------------------------------------------------------------
MaxRuns == 2
MaxApiCalls == 2

\* the rows of scheduled_messages in insertion order
MessageOrder == <<"s1", "s2">>
MessageIds == {MessageOrder[k] : k \in DOMAIN MessageOrder}

\* recipientInstagramId is an external id, or `pending:${cleanUsername}`;
\* the string is kept as its parts
Placeholder(username) == <<"pending:", username>>

\* recipientId.startsWith('pending:')
startsWithPending(recipientId) == Len(recipientId) > 0 /\ recipientId[1] = "pending:"

\* recipientId.replace('pending:', ''): the first occurrence is removed
RECURSIVE replacePending(_)
replacePending(recipientId) ==
  IF recipientId = <<>> THEN <<>>
  ELSE IF Head(recipientId) = "pending:" THEN Tail(recipientId)
  ELSE <<Head(recipientId)>> \o replacePending(Tail(recipientId))

ScheduledMessage(id, account, recipient, username, buttons, scheduledFor) ==
  [id |-> id, userId |-> "user1", instagramAccountId |-> account,
   recipientInstagramId |-> recipient, recipientUsername |-> username,
   buttons |-> buttons, scheduledFor |-> scheduledFor, status |-> "pending",
   error |-> ""]

\* storage.getInstagramAccount(id)
getInstagramAccount(id) == IF id \in DOMAIN accounts THEN Some(accounts[id]) ELSE None

\* storage.getFollowerByUsername(accountId, username): the rows of
\* follower_tracking for the account and the username; LIMIT 1 returns any
getFollowerByUsername(accountId, username) ==
  {f \in followerTracking : f[1] = accountId /\ f[3] = username}

\* the row is pending and due
IsDue(id) ==
  /\ id \in DOMAIN scheduledMessages
  /\ scheduledMessages[id].status = "pending"
  /\ scheduledMessages[id].scheduledFor <= now

\* storage.getPendingScheduledMessages(): the ids of the rows that are
\* pending and due, in insertion order
getPendingScheduledMessages == SelectSeq(MessageOrder, IsDue)

\* storage.markScheduledMessageFailed(id, error)
markScheduledMessageFailed(id, error) ==
  IF id \in DOMAIN scheduledMessages
  THEN [scheduledMessages EXCEPT ![id].status = "failed", ![id].error = error]
  ELSE scheduledMessages

\* storage.markScheduledMessageProcessed(id)
markScheduledMessageProcessed(id) ==
  IF id \in DOMAIN scheduledMessages
  THEN [scheduledMessages EXCEPT ![id].status = "sent"]
  ELSE scheduledMessages

\* storage.updateScheduledMessage(id, { recipientInstagramId })
updateScheduledMessage(id, recipientId) ==
  IF id \in DOMAIN scheduledMessages
  THEN [scheduledMessages EXCEPT ![id].recipientInstagramId = recipientId]
  ELSE scheduledMessages

\* storage.deleteScheduledMessage(id)
deleteScheduledMessage(id) ==
  [m \in DOMAIN scheduledMessages \ {id} |-> scheduledMessages[m]]

\* One run of the processor: the rows it fetched, its position in them, and
\* what it has done (log: the rows selected, the storage writes and the sends).
NewRun ==
  [pc |-> "fetch", pending |-> <<>>, i |-> 0, account |-> None,
   recipientId |-> <<>>, reason |-> "", log |-> <<>>]

CurScheduled(run) == run.pending[run.i]

Did(kind, run, ok, detail) ==
  [kind |-> kind, id |-> CurScheduled(run).id, recipientId |-> run.recipientId,
   ok |-> ok, detail |-> detail]

\* faulty variant: a failure ends the run instead of the iteration
AbortRun(run) == [run EXCEPT !.pc = "done"]

\* `continue`, or the end of the loop body: on to the next fetched row
NextMessage(run) ==
  IF run.i + 1 > Len(run.pending)
  THEN [run EXCEPT !.pc = "done", !.i = run.i + 1]
  ELSE [run EXCEPT !.pc = "account", !.i = run.i + 1, !.account = None,
                   !.recipientId = <<>>, !.reason = ""]

\* the catch block, and the `continue` after an early markScheduledMessageFailed:
\* the loop goes on
AfterFailure(run) == NextMessage(run)

RunnerUnchanged ==
  UNCHANGED << clock, accounts, automations, processedComments, followerTracking,
               webhookProcessingCache, req, trace, faults, restarts, pure, api, backups,
               calls >>

\* the interval elapses and the callback starts, whether or not an earlier
\* callback is still running
RunnerFire ==
  /\ Len(runs) < MaxRuns
  /\ now' = now + TickMs
  /\ runs' = Append(runs, NewRun)
  /\ UNCHANGED << scheduledMessages, activityLog >>
  /\ RunnerUnchanged

\* const pendingMessages = await storage.getPendingScheduledMessages()
RunnerFetch(n) ==
  /\ n \in DOMAIN runs /\ runs[n].pc = "fetch"
  /\ LET o == getPendingScheduledMessages
         rows == [k \in 1..Len(o) |-> scheduledMessages[o[k]]]
         selected == [k \in 1..Len(o) |->
                          [kind |-> "select", id |-> o[k], recipientId |-> <<>>,
                         ok |-> TRUE, detail |-> ""]]
     IN runs' = [runs EXCEPT ![n] =
                     NextMessage([@ EXCEPT !.pending = rows, !.log = selected])]
  /\ UNCHANGED << now, scheduledMessages, activityLog >>
  /\ RunnerUnchanged

\* const account = await storage.getInstagramAccount(msg.instagramAccountId)
\* and the synchronous code after it
RunnerAccount(n) ==
  LET run == runs[n]
      msg == CurScheduled(run)
      account == getInstagramAccount(msg.instagramAccountId)
  IN
  /\ n \in DOMAIN runs /\ run.pc = "account"
  /\ runs' = [runs EXCEPT ![n] =
       IF account = None
       THEN [run EXCEPT !.pc = "fail", !.reason = "Instagram account not found"]
       ELSE IF startsWithPending(msg.recipientInstagramId)
       THEN [run EXCEPT !.pc = "follower", !.account = account]
       ELSE [run EXCEPT !.pc = "send", !.account = account,
                        !.recipientId = msg.recipientInstagramId]]
  /\ UNCHANGED << now, scheduledMessages, activityLog >>
  /\ RunnerUnchanged

\* const follower = await storage.getFollowerByUsername(account.id, pendingUsername)
RunnerFollower(n) ==
  LET run == runs[n]
      pendingUsername == replacePending(CurScheduled(run).recipientInstagramId)
      found == IF Len(pendingUsername) = 1
               THEN getFollowerByUsername(run.account[1].id, pendingUsername[1])
               ELSE {}
  IN
  /\ n \in DOMAIN runs /\ run.pc = "follower"
  /\ IF found = {}
     THEN runs' = [runs EXCEPT ![n] =
            [run EXCEPT !.pc = "fail", !.reason = "has not interacted"]]
     ELSE \E follower \in found :
            runs' = [runs EXCEPT ![n] =
              IF follower[2] # ""
              THEN [run EXCEPT !.pc = "persist", !.recipientId = <<follower[2]>>]
              ELSE [run EXCEPT !.pc = "fail", !.reason = "has not interacted"]]
  /\ UNCHANGED << now, scheduledMessages, activityLog >>
  /\ RunnerUnchanged

\* await storage.updateScheduledMessage(msg.id, { recipientInstagramId: recipientId })
RunnerPersist(n) ==
  LET run == runs[n] IN
  /\ n \in DOMAIN runs /\ run.pc = "persist"
  /\ scheduledMessages' = updateScheduledMessage(CurScheduled(run).id, run.recipientId)
  /\ runs' = [runs EXCEPT ![n] =
       [run EXCEPT !.pc = "send", !.log = Append(@, Did("update", run, TRUE, ""))]]
  /\ UNCHANGED << now, activityLog >>
  /\ RunnerUnchanged

\* await sendDirectMessageWithButtons(...) or await sendDirectMessage(...):
\* the call returns or throws
RunnerSend(n) ==
  LET run == runs[n]
      via == IF CurScheduled(run).buttons THEN "sendDirectMessageWithButtons"
             ELSE "sendDirectMessage"
  IN
  /\ n \in DOMAIN runs /\ run.pc = "send"
  /\ \E ok \in BOOLEAN :
       runs' = [runs EXCEPT ![n] =
         [run EXCEPT !.pc = IF ok THEN "mark" ELSE "fail",
                     !.reason = IF ok THEN "" ELSE "send failed",
                     !.log = Append(@, Did("send", run, ok, via))]]
  /\ UNCHANGED << now, scheduledMessages, activityLog >>
  /\ RunnerUnchanged

\* await storage.markScheduledMessageProcessed(msg.id)
RunnerMark(n) ==
  LET run == runs[n] IN
  /\ n \in DOMAIN runs /\ run.pc = "mark"
  /\ scheduledMessages' = markScheduledMessageProcessed(CurScheduled(run).id)
  /\ runs' = [runs EXCEPT ![n] =
       [run EXCEPT !.pc = "log", !.log = Append(@, Did("sent", run, TRUE, ""))]]
  /\ UNCHANGED << now, activityLog >>
  /\ RunnerUnchanged

\* await storage.createActivityLog({ action: "scheduled_dm_sent", ... }); the
\* call is inside the try block of the message, so a write that throws is
\* handled by the catch block
RunnerLog(n) ==
  LET run == runs[n] IN
  /\ n \in DOMAIN runs /\ run.pc = "log"
  /\ \/ /\ activityLog' = activityLog (+)
            SetToBag({[userId |-> CurScheduled(run).userId, automationId |-> "",
                       action |-> "scheduled_dm_sent"]})
        /\ runs' = [runs EXCEPT ![n] = NextMessage(run)]
     \/ /\ runs' = [runs EXCEPT ![n] = [run EXCEPT !.pc = "fail", !.reason = "log failed"]]
        /\ UNCHANGED activityLog
  /\ UNCHANGED << now, scheduledMessages >>
  /\ RunnerUnchanged

\* await storage.markScheduledMessageFailed(msg.id, reason), from the two
\* early exits and from the catch block
RunnerFail(n) ==
  LET run == runs[n] IN
  /\ n \in DOMAIN runs /\ run.pc = "fail"
  /\ scheduledMessages' = markScheduledMessageFailed(CurScheduled(run).id, run.reason)
  /\ runs' = [runs EXCEPT ![n] =
       AfterFailure([run EXCEPT !.log = Append(@, Did("failed", run, TRUE, run.reason))])]
  /\ UNCHANGED << now, activityLog >>
  /\ RunnerUnchanged

Answer(op, id, before, code) == [op |-> op, id |-> id, before |-> before, code |-> code]

ApiUnchanged ==
  UNCHANGED << now, clock, accounts, automations, processedComments, followerTracking,
               activityLog, webhookProcessingCache, req, trace, faults, restarts, pure,
               runs, backups, calls >>

\* the handler of DELETE /api/scheduled-messages/:id, for the owner of the rows
DeleteHandler(id) ==
  IF id \notin DOMAIN scheduledMessages
  THEN /\ api' = api \cup {Answer("DELETE", id, "none", 404)}
       /\ UNCHANGED scheduledMessages
  ELSE /\ scheduledMessages' = deleteScheduledMessage(id)
       /\ api' = api \cup {Answer("DELETE", id, scheduledMessages[id].status, 200)}

\* DELETE /api/scheduled-messages/:id
DeleteScheduled ==
  /\ Cardinality(api) < MaxApiCalls
  /\ \E id \in MessageIds : DeleteHandler(id)
  /\ ApiUnchanged

\* PATCH /api/scheduled-messages/:id with a new scheduledFor
PatchScheduled ==
  /\ Cardinality(api) < MaxApiCalls
  /\ \E id \in MessageIds :
       IF id \notin DOMAIN scheduledMessages
       THEN /\ api' = api \cup {Answer("PATCH", id, "none", 404)}
            /\ UNCHANGED scheduledMessages
       ELSE IF scheduledMessages[id].status # "pending"
       THEN /\ api' = api \cup {Answer("PATCH", id, scheduledMessages[id].status, 400)}
            /\ UNCHANGED scheduledMessages
       ELSE /\ scheduledMessages' =
                 [scheduledMessages EXCEPT ![id].scheduledFor = now + TickMs]
            /\ api' = api \cup {Answer("PATCH", id, "pending", 200)}
  /\ ApiUnchanged

Recipients == { <<"f1">>, Placeholder("bob") }

InitRunner ==
  /\ now = TickMs
  /\ clock = [day |-> "Mon", hours |-> 10, minutes |-> 0]
  /\ accounts = AccountsTable("b1", "tok", "ptok")
  /\ automations = Table(CommentOk, DmOk)
  /\ processedComments = EmptyBag
  /\ followerTracking \in { {}, {<<"A1", "f7", "bob">>}, {<<"A1", "", "bob">>} }
  /\ activityLog = EmptyBag
  /\ webhookProcessingCache = EmptyCache
  /\ req = [r \in Requests |-> NewRequest(NoBody)]
  /\ trace = [r \in Requests |-> <<>>]
  /\ faults = MaxFaults
  /\ restarts = MaxRestarts
  /\ pure = NoCall
  /\ backups = {}
  /\ calls = << >>
  /\ runs = << >>
  /\ api = {}
  /\ \E account \in {"A1", "A3"}, recipient \in Recipients, due \in {TickMs, 3 * TickMs} :
       scheduledMessages =
         [id \in MessageIds |->
            IF id = "s1"
            THEN ScheduledMessage("s1", account, recipient, "bob", FALSE, due)
            ELSE ScheduledMessage("s2", "A1", <<"f2">>, "amy", TRUE, TickMs)]

NextRunner ==
  \/ RunnerFire
  \/ \E n \in 1..MaxRuns :
       \/ RunnerFetch(n) \/ RunnerAccount(n) \/ RunnerFollower(n) \/ RunnerPersist(n)
       \/ RunnerSend(n) \/ RunnerMark(n) \/ RunnerLog(n) \/ RunnerFail(n)

SpecRunner == InitRunner /\ [][NextRunner]_vars

\* The API routes on their own, on rows in every status the processor leaves
\* them in.
Processed(msg, status) ==
  [msg EXCEPT !.status = status,
              !.error = IF status = "failed" THEN "send failed" ELSE ""]

Statuses == {"pending", "sent", "failed"}

InitScheduledApi ==
  /\ now = TickMs
  /\ clock = [day |-> "Mon", hours |-> 10, minutes |-> 0]
  /\ accounts = AccountsTable("b1", "tok", "ptok")
  /\ automations = Table(CommentOk, DmOk)
  /\ processedComments = EmptyBag
  /\ followerTracking = {}
  /\ activityLog = EmptyBag
  /\ webhookProcessingCache = EmptyCache
  /\ req = [r \in Requests |-> NewRequest(NoBody)]
  /\ trace = [r \in Requests |-> <<>>]
  /\ faults = MaxFaults
  /\ restarts = MaxRestarts
  /\ pure = NoCall
  /\ backups = {}
  /\ calls = << >>
  /\ runs = << >>
  /\ api = {}
  /\ \E st1 \in Statuses, st2 \in Statuses, due \in {0, TickMs, 3 * TickMs} :
       scheduledMessages =
         [id \in MessageIds |->
            IF id = "s1"
            THEN Processed(ScheduledMessage("s1", "A1", <<"f1">>, "bob", FALSE, due), st1)
            ELSE Processed(ScheduledMessage("s2", "A1", <<"f2">>, "amy", TRUE, TickMs), st2)]

NextScheduledApi == DeleteScheduled \/ PatchScheduled

SpecScheduledApi == InitScheduledApi /\ [][NextScheduledApi]_vars

\* ------------------------------------------------------------------------
\* Properties of the scheduled-message processor
\* ------------------------------------------------------------------------
\* what run n did for the message id, in order
DoneFor(n, id) == SelectSeq(runs[n].log, LAMBDA e : e.id = id /\ e.kind # "select")

Selected(n) == {runs[n].pending[k].id : k \in DOMAIN runs[n].pending}

\* C24: a pending message that is due when a run fetches is selected by it,
\* is sent or failed when that run ends, and is selected by no later run.
SelectedOnceAndSettled ==
  \A n \in DOMAIN runs :
    /\ runs[n].pc = "done" =>
         \A id \in Selected(n) : scheduledMessages[id].status \in {"sent", "failed"}
    /\ \A m \in DOMAIN runs : m > n => Selected(n) \cap Selected(m) = {}

Deliveries(id) ==
  {<<n, k>> \in UNION {{n} \X DOMAIN runs[n].log : n \in DOMAIN runs} :
     /\ runs[n].log[k].id = id /\ runs[n].log[k].kind = "send" /\ runs[n].log[k].ok}

\* C25: every scheduled message is delivered at most once, also when a run
\* is still busy when the next one starts.
DeliveredAtMostOnce ==
  \A id \in MessageIds : Cardinality(Deliveries(id)) <= 1

\* the follower-tracking rows that resolve the placeholder of msg
ResolvingRows(msg) ==
  {f \in followerTracking :
     /\ f[1] = msg.instagramAccountId /\ f[2] # ""
     /\ <<f[3]>> = replacePending(msg.recipientInstagramId)}

Kinds(log) == {log[k].kind : k \in DOMAIN log}

DeleteOnlyWhilePending ==
  \A a \in api :
    (a.op = "DELETE" /\ a.before \in {"sent", "failed"}) =>
       a.code # 200 /\ a.id \in DOMAIN scheduledMessages

\* ------------------------------------------------------------------------
\* Disconnecting and reconnecting an Instagram account
\* (DELETE /api/instagram/accounts/:accountId and the OAuth callback)
\* ------------------------------------------------------------------------
MaxCalls == 3

\* ids the database gives to the rows createAutomation inserts
NewIds == <<"a3", "a4", "a5", "a6", "a7", "a8">>

\* storage.getInstagramAccountsByUserId(userId)
getInstagramAccountsByUserId(userId) ==
  {a \in DOMAIN accounts : accounts[a].userId = userId /\ accounts[a].isActive}

\* storage.getDeactivatedInstagramAccount(userId, instagramUserId)
getDeactivatedInstagramAccount(userId, instagramUserId) ==
  {a \in DOMAIN accounts :
     /\ accounts[a].userId = userId
     /\ accounts[a].instagramUserId = instagramUserId
     /\ ~accounts[a].isActive}

\* the object the disconnect route stores for one automation
backupData(a) ==
  [type |-> a.type, title |-> a.title, description |-> a.description,
   config |-> a.config, stats |-> a.stats, isActive |-> a.isActive]

\* the rows of automation_backups for the pair
getAutomationBackup(userId, instagramUserId) ==
  {b \in backups : b.userId = userId /\ b.instagramUserId = instagramUserId}

\* storage.deleteAutomationBackup(userId, instagramUserId)
deleteAutomationBackup(userId, instagramUserId) ==
  backups \ getAutomationBackup(userId, instagramUserId)

\* storage.backupAutomations(userId, instagramUserId, automationData): the
\* rows of the pair are deleted, then one row is inserted
backupAutomations(userId, instagramUserId, automationData) ==
  deleteAutomationBackup(userId, instagramUserId)
    \cup {[userId |-> userId, instagramUserId |-> instagramUserId,
           automationData |-> automationData]}

\* storage.deleteAutomation(id)
deleteAutomation(id) == SelectSeq(automations, LAMBDA a : a.id # id)

\* faulty variant: the restored automation keeps the backed-up isActive
createRestoredAsBackedUp(accountId, autoData, n) ==
  [id |-> NewIds[n], instagramAccountId |-> accountId, type |-> autoData.type,
   title |-> autoData.title, description |-> autoData.description,
   isActive |-> autoData.isActive, config |-> autoData.config, stats |-> autoData.stats,
   createdAt |-> 10 + n]

\* the row storage.createAutomation inserts for one backed-up automation; n
\* counts the rows created so far
createRestored(accountId, autoData, n) ==
  [id |-> NewIds[n], instagramAccountId |-> accountId, type |-> autoData.type,
   title |-> autoData.title, description |-> autoData.description,
   isActive |-> FALSE, config |-> autoData.config, stats |-> autoData.stats,
   createdAt |-> 10 + n]

\* no request in flight; n requests answered, the last one with `last`;
\* saved: the automations the last disconnect found; first: the automations
\* found by the disconnect that this one retries (the same, if it is no retry)
Idle(c, last) ==
  [c EXCEPT !.pc = "idle", !.last = last, !.n = c.n + 1, !.rows = <<>>, !.i = 0]

AccountUnchanged ==
  UNCHANGED << now, clock, processedComments, followerTracking, activityLog,
               webhookProcessingCache, req, trace, faults, restarts, pure,
               scheduledMessages, runs, api >>

\* DELETE /api/instagram/accounts/:accountId up to the account lookup
DisconnectLookup ==
  /\ calls.pc = "idle" /\ calls.n < MaxCalls
  /\ \E accountId \in {"A1"} :
       calls' = IF accountId \in getInstagramAccountsByUserId("user1")
                THEN [calls EXCEPT !.pc = "dAutomations", !.account = accountId]
                ELSE Idle(calls, "notFound")
  /\ UNCHANGED << accounts, automations, backups >>
  /\ AccountUnchanged

\* const automations = await storage.getAutomationsByInstagramAccountId(account.id)
DisconnectAutomations ==
  /\ calls.pc = "dAutomations"
  /\ LET rows == getAutomationsByInstagramAccountId(calls.account) IN
     calls' = [calls EXCEPT !.rows = rows, !.saved = rows, !.i = 1,
                            !.first = IF calls.last = "error" THEN calls.first ELSE rows,
                            !.pc = IF Len(rows) > 0 THEN "dBackup" ELSE "dDelete"]
  /\ UNCHANGED << accounts, automations, backups >>
  /\ AccountUnchanged

\* await storage.backupAutomations(user.id, account.instagramUserId, backupData)
DisconnectBackup ==
  /\ calls.pc = "dBackup"
  /\ backups' = backupAutomations("user1", accounts[calls.account].instagramUserId,
                                  [k \in DOMAIN calls.rows |-> backupData(calls.rows[k])])
  /\ calls' = [calls EXCEPT !.pc = "dDelete"]
  /\ UNCHANGED << accounts, automations >>
  /\ AccountUnchanged

\* await storage.deleteAutomation(automation.id), once per automation
DisconnectDelete ==
  /\ calls.pc = "dDelete" /\ calls.i <= Len(calls.rows)
  /\ automations' = deleteAutomation(calls.rows[calls.i].id)
  /\ calls' = [calls EXCEPT !.i = calls.i + 1]
  /\ UNCHANGED << accounts, backups >>
  /\ AccountUnchanged

\* await storage.deactivateInstagramAccount(account.id), then the answer
DisconnectDeactivate ==
  /\ calls.pc = "dDelete" /\ calls.i > Len(calls.rows)
  /\ accounts' = [accounts EXCEPT ![calls.account].isActive = FALSE]
  /\ calls' = Idle(calls, "disconnected")
  /\ UNCHANGED << automations, backups >>
  /\ AccountUnchanged

\* a storage call of the disconnect route throws: the catch block answers 500
\* and what was written so far stays
DisconnectFault ==
  /\ calls.pc \in {"dAutomations", "dBackup", "dDelete"}
  /\ calls' = Idle(calls, "error")
  /\ UNCHANGED << accounts, automations, backups >>
  /\ AccountUnchanged

\* the OAuth callback for external user u1 up to
\* storage.getDeactivatedInstagramAccount(user.id, userInfo.id)
ReconnectLookup ==
  /\ calls.pc = "idle" /\ calls.n < MaxCalls
  /\ LET found == getDeactivatedInstagramAccount("user1", "u1") IN
     IF found = {}
     THEN calls' = [calls EXCEPT !.pc = "rUpsert"]
     ELSE \E a \in found : calls' = [calls EXCEPT !.pc = "rActivate", !.account = a]
  /\ UNCHANGED << accounts, automations, backups >>
  /\ AccountUnchanged

\* await storage.upsertInstagramAccount({...}): the account exists and gets
\* the new token
ReconnectUpsert ==
  /\ calls.pc = "rUpsert"
  /\ accounts' = [accounts EXCEPT !["A1"].accessToken = "tok2"]
  /\ calls' = Idle(calls, "connected")
  /\ UNCHANGED << automations, backups >>
  /\ AccountUnchanged

\* await storage.reactivateInstagramAccount(deactivatedAccount.id, accessToken, expiresIn)
ReconnectActivate ==
  /\ calls.pc = "rActivate"
  /\ accounts' = [accounts EXCEPT ![calls.account].isActive = TRUE,
                                  ![calls.account].accessToken = "tok2"]
  /\ calls' = [calls EXCEPT !.pc = "rBackup"]
  /\ UNCHANGED << automations, backups >>
  /\ AccountUnchanged

\* const backup = await storage.getAutomationBackup(user.id, userInfo.id)
ReconnectBackup ==
  /\ calls.pc = "rBackup"
  /\ LET found == getAutomationBackup("user1", accounts[calls.account].instagramUserId) IN
     IF found = {}
     THEN calls' = Idle(calls, "reconnected")
     ELSE \E b \in found :
            calls' = [calls EXCEPT !.pc = "rCreate", !.rows = b.automationData, !.i = 1]
  /\ UNCHANGED << accounts, automations, backups >>
  /\ AccountUnchanged

\* await storage.createAutomation({...autoData, isActive: false}), once per
\* backed-up automation
ReconnectCreate ==
  /\ calls.pc = "rCreate" /\ calls.i <= Len(calls.rows)
  /\ automations' = Append(automations,
       createRestored(calls.account, calls.rows[calls.i], calls.created + 1))
  /\ calls' = [calls EXCEPT !.i = calls.i + 1, !.created = calls.created + 1]
  /\ UNCHANGED << accounts, backups >>
  /\ AccountUnchanged

\* await storage.deleteAutomationBackup(user.id, userInfo.id), then the redirect
ReconnectDeleteBackup ==
  /\ calls.pc = "rCreate" /\ calls.i > Len(calls.rows)
  /\ backups' = deleteAutomationBackup("user1", accounts[calls.account].instagramUserId)
  /\ calls' = Idle(calls, "reconnected")
  /\ UNCHANGED << accounts, automations >>
  /\ AccountUnchanged

\* the automations of a freshly connected account: none, one or two of A1,
\* next to one of another account
AccountTables ==
  LET vs == {CommentOk, DmOk, Variant("story_reaction", FALSE, BaseConfig)}
      other == Row("a9", "A2", 3, StoryOk)
      used(row) == [row EXCEPT !.stats = [totalReplies |-> 2]]
  IN {<<other>>}
     \cup {<<Row("a1", "A1", 1, v), other>> : v \in vs}
     \cup {<<used(Row("a1", "A1", 1, v1)), Row("a2", "A1", 2, v2), other>> :
             v1 \in vs, v2 \in vs}

InitAccounts ==
  /\ now = TickMs
  /\ clock = [day |-> "Mon", hours |-> 10, minutes |-> 0]
  /\ accounts = AccountsTable("b1", "tok", "ptok")
  /\ automations \in AccountTables
  /\ processedComments = EmptyBag
  /\ followerTracking = {}
  /\ activityLog = EmptyBag
  /\ webhookProcessingCache = EmptyCache
  /\ req = [r \in Requests |-> NewRequest(NoBody)]
  /\ trace = [r \in Requests |-> <<>>]
  /\ faults = MaxFaults
  /\ restarts = MaxRestarts
  /\ pure = NoCall
  /\ scheduledMessages = << >>
  /\ runs = << >>
  /\ api = {}
  /\ backups \in { {}, {[userId |-> "user1", instagramUserId |-> "u2",
                         automationData |-> << backupData(Row("a0", "A2", 0, DmOk)) >>]} }
  /\ calls = [pc |-> "idle", last |-> "none", n |-> 0, account |-> "", rows |-> <<>>,
              saved |-> <<>>, first |-> <<>>, i |-> 0, created |-> 0]

NextAccounts ==
  \/ DisconnectLookup \/ DisconnectAutomations \/ DisconnectBackup \/ DisconnectDelete
  \/ DisconnectDeactivate
  \/ ReconnectLookup \/ ReconnectUpsert \/ ReconnectActivate \/ ReconnectBackup
  \/ ReconnectCreate \/ ReconnectDeleteBackup

SpecAccounts == InitAccounts /\ [][NextAccounts]_vars

\* disconnect requests whose storage calls can fail, and their retries
NextDisconnectRetry ==
  \/ DisconnectLookup \/ DisconnectAutomations \/ DisconnectBackup \/ DisconnectDelete
  \/ DisconnectDeactivate \/ DisconnectFault

SpecDisconnectRetry == InitAccounts /\ [][NextDisconnectRetry]_vars

\* ------------------------------------------------------------------------
\* Properties of disconnect and reconnect
\* ------------------------------------------------------------------------
\* the live automations of an account, in insertion order
LiveRows(accountId) == SelectSeq(automations, LAMBDA a : a.instagramAccountId = accountId)

\* what a backup keeps of an automation and a restore gives back
Kept(a) ==
  [type |-> a.type, title |-> a.title, description |-> a.description,
   config |-> a.config, stats |-> a.stats]

KeptAll(rows) == [k \in DOMAIN rows |-> Kept(rows[k])]

\* after a reconnect that follows a disconnect, the account has again the
\* automations the disconnect found, all inactive, and the backup is gone
RestoredAll(accountId) ==
  /\ KeptAll(LiveRows(accountId)) = KeptAll(calls.saved)
  /\ \A k \in DOMAIN LiveRows(accountId) : ~LiveRows(accountId)[k].isActive
  /\ getAutomationBackup("user1", accounts[accountId].instagramUserId) = {}

\* C28 as stated: a disconnect that found N automations leaves exactly one
\* backup record for the pair with N entries and no live row; the reconnect
\* that follows creates exactly those N automations, inactive, and deletes
\* the backup.
BackupRoundTrip ==
  /\ (calls.pc = "idle" /\ calls.last = "disconnected") =>
       /\ LiveRows(calls.account) = <<>>
       /\ \E b \in backups :
            /\ getAutomationBackup("user1", accounts[calls.account].instagramUserId) = {b}
            /\ Len(b.automationData) = Len(calls.saved)
  /\ (calls.pc = "idle" /\ calls.last = "reconnected") => RestoredAll(calls.account)

\* C28: as above, except that a disconnect that found no automation writes
\* no backup record.
BackupRoundTripNonEmpty ==
  /\ (calls.pc = "idle" /\ calls.last = "disconnected") =>
       /\ LiveRows(calls.account) = <<>>
       /\ IF calls.saved = <<>>
          THEN getAutomationBackup("user1", accounts[calls.account].instagramUserId) = {}
          ELSE \E b \in backups :
                 /\ getAutomationBackup("user1", accounts[calls.account].instagramUserId) = {b}
                 /\ KeptAll(b.automationData) = KeptAll(calls.saved)
  /\ (calls.pc = "idle" /\ calls.last = "reconnected") => RestoredAll(calls.account)

\* two automations, one of them active and used, came back after a
\* disconnect and a reconnect
TwoRestored ==
  /\ calls.pc = "idle" /\ calls.last = "reconnected"
  /\ Len(calls.saved) = 2 /\ Len(LiveRows(calls.account)) = 2
  /\ \E k \in 1..2 : calls.saved[k].isActive /\ calls.saved[k].stats.totalReplies = 2

\* ---------------------------------------------------------------------------
\* Verification handshake
\* ---------------------------------------------------------------------------

Verified(c) ==
  c.args[1] = Some("subscribe") /\ c.args[4] # None /\ c.args[2] = c.args[4]

\* C31: the handshake answers 200 with the challenge exactly when hub.mode is
\* "subscribe" and hub.verify_token equals the configured verify token, and 403
\* in every other case, a request without a token while no verify token is
\* configured included
HandshakeIffTokenMatches ==
  (pure.fn = "GET /api/webhooks/instagram" /\ pure.result # <<>>) =>
     IF Verified(pure)
       THEN pure.result[1].status = 200 /\ pure.result[1].body = pure.args[3]
       ELSE pure.result[1].status = 403

\* ---------------------------------------------------------------------------
\* Order of check, mark and send in the comment flow
\* ---------------------------------------------------------------------------

\* the requests that are about to call sendPrivateReply or replyToComment
AboutToCallProvider == {r \in Requests : req[r].flow = "comment" /\ req[r].pc \in {"send", "reply"}}

\* the request has evaluated isCommentProcessed for its current pair, and
\* the answer was that the ledger had no record
CheckedPair(r) ==
  \E i \in DOMAIN trace[r] :
     /\ trace[r][i].kind = "eval" /\ trace[r][i].flow = "comment" /\ trace[r][i].ok
     /\ trace[r][i].pos = Pos(req[r])
     /\ trace[r][i].auto = CurAuto(req[r]).id

CommentCalls == {p \in Idx : At(p).kind = "call" /\ At(p).flow = "comment"}

\* C32: in the comment flow isCommentProcessed is evaluated for a (comment,
\* automation) pair before any provider call for the pair, and the ledger holds
\* the record of the pair before sendPrivateReply or replyToComment is invoked
CheckAndMarkBeforeSend ==
  /\ \A r \in AboutToCallProvider :
        /\ CheckedPair(r)
        /\ isCommentProcessed(Acc(req[r]).id, CurComment(req[r]).id, CurAuto(req[r]).id)
  /\ \A p \in CommentCalls :
        /\ \E i \in 1..(p[2] - 1) :
              /\ trace[p[1]][i].kind = "eval" /\ trace[p[1]][i].ok
              /\ SameEvent(trace[p[1]][i], At(p)) /\ trace[p[1]][i].auto = At(p).auto
        /\ isCommentProcessed(At(p).account, At(p).target, At(p).auto)

\* a request inserted the record and then called both provider functions
MarkedThenSentBoth ==
  \E r \in Requests : \E i, j, k \in DOMAIN trace[r] :
     /\ i < j /\ j < k
     /\ trace[r][i].kind = "insert" /\ trace[r][i].tag = "processing"
     /\ trace[r][j].kind = "call" /\ trace[r][j].tag = "sendPrivateReply"
     /\ trace[r][k].kind = "call" /\ trace[r][k].tag = "replyToComment"
     /\ Key(trace[r][i]) = Key(trace[r][j]) /\ Key(trace[r][j]) = Key(trace[r][k])

\* ---------------------------------------------------------------------------
\* Linking the business id
\* ---------------------------------------------------------------------------

\* no request started while another one was being handled
Sequential == \A r \in Requests : ~req[r].overlapped

\* updateInstagramAccountBusinessId returned for request r in this step
Linked(r) == req[r].pc = "link" /\ req'[r].pc = "autos"

LinkStoresEntryId ==
  \A r \in Requests :
     Linked(r) => accounts'[Acc(req[r]).id].igBusinessAccountId = CurEntry(req[r]).id

BusinessIdNeverChanges ==
  \A a \in AccountIds :
     accounts[a].igBusinessAccountId # "" =>
        accounts'[a].igBusinessAccountId = accounts[a].igBusinessAccountId

BusinessIdsDistinct ==
  \A a, b \in AccountIds :
     (a # b /\ accounts[a].igBusinessAccountId # "") =>
        accounts[a].igBusinessAccountId # accounts[b].igBusinessAccountId

\* C33: a comment event that resolves an account without business id stores
\* the entry id as the account's business id; webhook processing never changes
\* a business id that is set; after webhooks processed one after the other no
\* two accounts hold the same business id
BusinessIdLinkedOnce ==
  /\ [][LinkStoresEntryId /\ BusinessIdNeverChanges]_vars
  /\ [](Sequential => BusinessIdsDistinct)

\* ---------------------------------------------------------------------------
\* Status of a scheduled message
\* ---------------------------------------------------------------------------

\* C34: the status of a scheduled message changes only from pending, to sent
\* or to failed, so it changes once and never after the message is sent, also
\* when the activity-log write after markScheduledMessageProcessed fails
StatusChangesOnce ==
  [][\A id \in DOMAIN scheduledMessages :
       scheduledMessages'[id].status # scheduledMessages[id].status =>
          /\ scheduledMessages[id].status = "pending"
          /\ scheduledMessages'[id].status \in {"sent", "failed"}]_vars

\* ---------------------------------------------------------------------------
\* Button payload of sendDirectMessage
\* ---------------------------------------------------------------------------

PayloadBuilt ==
  pure.fn = "sendDirectMessage" /\ pure.result # <<>> /\ pure.result[1].kind = "template"

\* C35: a button payload has at most 3 buttons, every button title has at
\* most 20 characters, the element title is the first 80 characters of the
\* message, and the subtitle is characters 80 to 159 of the message, absent
\* when the message has at most 80 characters
ButtonPayloadLimits ==
  PayloadBuilt =>
    LET message == pure.args[1]
        given == pure.args[2]
        payload == pure.result[1]
        n == Len(message)
    IN
    /\ Len(payload.buttons) <= 3
    /\ Len(payload.buttons) = (IF Len(given) < 3 THEN Len(given) ELSE 3)
    /\ \A k \in DOMAIN payload.buttons :
          /\ Len(payload.buttons[k].title) <= 20
          /\ payload.buttons[k].url = given[k].url
          /\ \A i \in DOMAIN payload.buttons[k].title :
                payload.buttons[k].title[i] = given[k].title[i]
          /\ Len(given[k].title) <= 20 => payload.buttons[k].title = given[k].title
    /\ payload.title = [i \in 1..(IF n < 80 THEN n ELSE 80) |-> message[i]]
    /\ IF n <= 80
       THEN payload.subtitle = None
       ELSE payload.subtitle =
              Some([i \in 1..((IF n < 160 THEN n ELSE 160) - 80) |-> message[80 + i]])

\* five buttons with long titles and a message of more than 160 characters
\* were cut to three buttons, titles of 20, a title of 80 and a subtitle of 80
PayloadCut ==
  /\ PayloadBuilt
  /\ Len(pure.args[1]) > 160 /\ Len(pure.args[2]) = 5
  /\ Len(pure.args[2][1].title) > 20
  /\ Len(pure.result[1].buttons) = 3
  /\ Len(pure.result[1].buttons[3].title) = 20
  /\ Len(pure.result[1].title) = 80
  /\ Len(pure.result[1].subtitle[1]) = 80

\* ---------------------------------------------------------------------------
\* A disconnect next to a webhook delivery and the scheduled-message processor
\* ---------------------------------------------------------------------------

\* a comment_to_dm automation with a delay and a public reply
CommentDelayReply ==
  Variant("comment_to_dm", TRUE,
          [Kw(<<S_a>>) EXCEPT !.delaySeconds = 60, !.commentReplyEnabled = TRUE,
                              !.commentReplyTemplate = S_hi])

\* a run of the processor that found nothing to do
FinishedRun == [NewRun EXCEPT !.pc = "done", !.i = 1]

\* account A1 with one comment automation; either a comment on A1 is
\* delivered after the last run of the processor, or a message of A1 is
\* scheduled and due for its last run; the user disconnects and reconnects A1
\* at any moment (two account requests are left)
InitDisconnect ==
  /\ now = TickMs
  /\ clock = [day |-> "Mon", hours |-> 10, minutes |-> 0]
  /\ accounts = AccountsTable("b1", "tok", "ptok")
  /\ automations = Table(CommentDelayReply, DmOk)
  /\ processedComments = EmptyBag
  /\ followerTracking = {}
  /\ activityLog = EmptyBag
  /\ webhookProcessingCache = EmptyCache
  /\ trace = [r \in Requests |-> <<>>]
  /\ faults = MaxFaults
  /\ restarts = MaxRestarts
  /\ pure = NoCall
  /\ backups = {}
  /\ api = {}
  /\ calls = [pc |-> "idle", last |-> "none", n |-> MaxCalls - 2, account |-> "",
              rows |-> <<>>, saved |-> <<>>, first |-> <<>>, i |-> 0, created |-> 0]
  /\ \/ /\ req = [r \in Requests |->
                    IF r = "r1" THEN NewRequest(Body(<< Entry("b1", <<Cmt1>>, <<>>) >>))
                    ELSE NewRequest(NoBody)]
        /\ scheduledMessages = << >>
        /\ runs = [k \in 1..MaxRuns |-> FinishedRun]
     \/ /\ req = [r \in Requests |-> NewRequest(NoBody)]
        /\ runs = [k \in 1..(MaxRuns - 1) |-> FinishedRun]
        /\ \E buttons \in BOOLEAN :
             scheduledMessages =
               [id \in {"s1"} |->
                  ScheduledMessage("s1", "A1", <<"f1">>, "bob", buttons, TickMs)]

\* the steps of the comment flow for an account found by business id, the
\* processor for a message with a resolved recipient, and the two account
\* routes
NextDisconnect ==
  \/ \E r \in Requests :
       \/ Start(r) \/ Event(r) \/ Acct(r) \/ Autos(r) \/ NextAuto(r) \/ IsProc(r)
       \/ Track(r) \/ TrackIns(r) \/ Sleep(r) \/ MarkSelect(r) \/ MarkInsert(r)
       \/ SendComment(r) \/ Reply(r) \/ Stats(r) \/ Log(r)
  \/ Tick
  \/ RunnerFire
  \/ \E n \in 1..MaxRuns :
       \/ RunnerFetch(n) \/ RunnerAccount(n) \/ RunnerSend(n) \/ RunnerMark(n)
       \/ RunnerLog(n) \/ RunnerFail(n)
  \/ DisconnectLookup \/ DisconnectAutomations \/ DisconnectBackup \/ DisconnectDelete
  \/ DisconnectDeactivate
  \/ ReconnectLookup \/ ReconnectUpsert \/ ReconnectActivate \/ ReconnectBackup
  \/ ReconnectCreate \/ ReconnectDeleteBackup

SpecDisconnect == InitDisconnect /\ [][NextDisconnect]_vars

\* request r called sendPrivateReply or replyToComment in this step
ProviderCall(r) ==
  /\ Len(trace'[r]) > Len(trace[r])
  /\ trace'[r][Len(trace'[r])].kind = "call"

\* run n called sendDirectMessage or sendDirectMessageWithButtons in this step
ProcessorSend(n) ==
  /\ n \in DOMAIN runs /\ n \in DOMAIN runs'
  /\ Len(runs'[n].log) > Len(runs[n].log)
  /\ runs'[n].log[Len(runs'[n].log)].kind = "send"

WebhookSendsOnlyWhileActive ==
  \A r \in Requests :
     ProviderCall(r) => accounts[trace'[r][Len(trace'[r])].account].isActive

ProcessorSendsOnlyWhileActive ==
  \A n \in 1..MaxRuns :
     ProcessorSend(n) => accounts[CurScheduled(runs[n]).instagramAccountId].isActive

\* C36: while an account is disconnected (isActive = false) no provider send
\* call is made with it, neither by a webhook event, nor by a webhook request
\* that was in its delay when the account was disconnected, nor by the
\* scheduled-message processor
NoSendWhileDisconnected ==
  [][WebhookSendsOnlyWhileActive /\ ProcessorSendsOnlyWhileActive]_vars

\* ---------------------------------------------------------------------------
\* A disconnect that fails partway and is retried
\* ---------------------------------------------------------------------------

\* the automations the backup record of the account holds
BackedUp(accountId) ==
  UNION {{Kept(b.automationData[k]) : k \in DOMAIN b.automationData} :
           b \in getAutomationBackup("user1", accounts[accountId].instagramUserId)}

\* C37: when a disconnect has completed, at the first attempt or at a retry
\* after attempts that failed partway, every automation the account had
\* before the first attempt is in the backup record
RetryKeepsBackup ==
  (calls.pc = "idle" /\ calls.last = "disconnected") =>
     \A k \in DOMAIN calls.first : Kept(calls.first[k]) \in BackedUp(calls.account)

\* ---------------------------------------------------------------------------
\* The dedup key of a comment and its redelivery
\* ---------------------------------------------------------------------------

\* the requests that are past the dedup check of a comment and not yet done
\* with it
HandlingComment ==
  {r \in Requests : req[r].flow = "comment"
                      /\ req[r].pc \notin {"none", "idle", "event", "done", "killed"}}

\* the next thing request r looks at is a comment whose key is recorded less
\* than WEBHOOK_CACHE_TTL ago
AtRecordedComment(r) ==
  LET q == req[r] IN
  /\ q.pc = "event" /\ q.ei <= Len(q.body.entry)
  /\ q.ci < Len(CurEntry(q).changes)
  /\ CurEntry(q).changes[q.ci + 1].field = "comments"
  /\ isWebhookDuplicate(webhookProcessingCache, CurEntry(q).changes[q.ci + 1].value.id, now)

\* request r leaves the comment alone: on to the next change, and nothing is
\* looked up, written or sent
SkipsComment(r) ==
  /\ req'[r] = [req[r] EXCEPT !.ci = req[r].ci + 1]
  /\ trace'[r] = trace[r]
  /\ UNCHANGED << accounts, automations, processedComments, followerTracking, activityLog >>

\* C38: the key comment:<id> is in the dedup map from the check at the first
\* delivery on, before the account is resolved and whatever becomes of the
\* delivery; so a redelivery of the comment less than 60 s later is skipped
\* without ledger check, match or send, also when the first delivery resolved
\* no account or was aborted by an exception
DedupKeyRecordedFirst ==
  /\ [](\A r \in HandlingComment :
          /\ CurComment(req[r]).id \in DOMAIN webhookProcessingCache
          /\ webhookProcessingCache[CurComment(req[r]).id] <= now)
  /\ [][/\ \A k \in DOMAIN webhookProcessingCache :
             restarts' = restarts => k \in DOMAIN webhookProcessingCache'
         /\ \A r \in Requests :
             (AtRecordedComment(r) /\ req'[r] # req[r]) => SkipsComment(r)]_vars

\* the first delivery ended without an evaluation (no account, or a storage
\* failure), the second delivery came after it at the same time and ended
\* without doing anything, and the ledger has no record of the comment
RedeliveryDroppedUnprocessed ==
  \E o \in Requests : \E r \in Requests \ {o} :
     /\ req[o].pc = "done" /\ req[r].pc = "done"
     /\ req[o].body = req[r].body /\ req[o].body.object = "instagram"
     /\ ~req[r].overlapped /\ ~req[o].overlapped
     /\ now = TickMs /\ restarts = MaxRestarts
     /\ trace[r] = <<>>
     /\ \A i \in DOMAIN trace[o] : trace[o][i].kind = "fault"
     /\ trace[o] # <<>> \/ req[o].status = 200
     /\ "c1" \in DOMAIN webhookProcessingCache
     /\ processedComments = EmptyBag

\* ---------------------------------------------------------------------------
\* Overnight window and day list
\* ---------------------------------------------------------------------------

Overnight(config) ==
  /\ config.scheduleEnabled /\ Len(config.scheduleDays) > 0
  /\ WellFormedTime(config.scheduleStartTime) /\ WellFormedTime(config.scheduleEndTime)
  /\ Hhmm(config.scheduleStartTime[1]) > Hhmm(config.scheduleEndTime[1])

MondayNight(config) ==
  /\ config.scheduleEnabled /\ config.scheduleDays = <<"mon">>
  /\ config.scheduleStartTime = Some(T2200) /\ config.scheduleEndTime = Some(T0600)

\* C39: for a window that wraps midnight and a day list, isWithinSchedule
\* compares the day list with the weekday of the current instant, not with the
\* weekday on which the window started: with scheduleDays [Mon] and window
\* 22:00-06:00, Tuesday 01:00 is rejected and Monday 01:00 is accepted
OvernightUsesCurrentDay ==
  LET config == pure.args[1]
      clk == pure.args[2]
  IN Applied("isWithinSchedule") =>
       /\ Overnight(config) =>
            pure.result[1] =
              ( /\ DayCheck(config, clk)
                /\ InWindow(CurrentHhmm(clk), Hhmm(config.scheduleStartTime[1]),
                            Hhmm(config.scheduleEndTime[1])) )
       /\ (MondayNight(config) /\ CurrentHhmm(clk) = 100 /\ clk.day = "Tue") => ~pure.result[1]
       /\ (MondayNight(config) /\ CurrentHhmm(clk) = 100 /\ clk.day = "Mon") => pure.result[1]

\* Tuesday 01:00 was rejected for [Mon] 22:00-06:00
TuesdayMorningRejected ==
  /\ Applied("isWithinSchedule")
  /\ MondayNight(pure.args[1])
  /\ pure.args[2].day = "Tue" /\ CurrentHhmm(pure.args[2]) = 100
  /\ ~pure.result[1]

====
